---- MODULE Spec2Model ----
(***************************************************************************)
(* A model of the AGV scheduler of agv-algorithm.py: the grid geometry     *)
(* (PointEx, Direction), the orientation-aware A* planner and its path     *)
(* timing (PathPlanning), the domain model (TaskEx, Agv, AgvContext), the  *)
(* compound task order, the scheduler tick (SchedulerService.process) with *)
(* its batched move, and the trajectory recorder.                          *)
(*                                                                         *)
(* A point is a pair <<x, y>>.  A direction is its angle value.  An AGV    *)
(* and a task are denoted by their index in the context's lists; the       *)
(* absent reference (None) is 0.                                           *)
(***************************************************************************)
EXTENDS Integers, Sequences, FiniteSets, TLC

(***************************************************************************)
(* Direction                                                               *)
(***************************************************************************)
RIGHT == 0
UP == 90
LEFT == 180
DOWN == 270

Direction == {RIGHT, UP, LEFT, DOWN}

None == 0

(***************************************************************************)
(* Sequence helpers (Python list operations)                               *)
(***************************************************************************)
\* A local of the code: Op(v) for v the value of e, which is computed once
\* however often Op uses v.
Bind(e, Op(_)) == CHOOSE r \in {Op(v) : v \in {e}} : TRUE

Range(s) == Bind(s, LAMBDA t : {t[i] : i \in 1..Len(t)})

Abs(n) == IF n < 0 THEN -n ELSE n

SetMin(S) == Bind(S, LAMBDA T : CHOOSE m \in T : \A n \in T : m <= n)
SetMax(S) == Bind(S, LAMBDA T : CHOOSE m \in T : \A n \in T : m >= n)

remove_at(q, i) == SubSeq(q, 1, i - 1) \o SubSeq(q, i + 1, Len(q))

\* list.remove(x): drops the first occurrence of x
RemoveFirst(s, x) ==
    Bind(s, LAMBDA t :
    Bind({k \in 1..Len(t) : t[k] = x}, LAMBDA ks :
        IF ks = {} THEN t ELSE remove_at(t, SetMin(ks))))

\* [x for x in s if x not in drop]
Without(s, drop) == Bind(drop, LAMBDA d : SelectSeq(s, LAMBDA x : x \notin d))

\* [x for x in s if x in keep]
SelectSeq2(s, keep) == Bind(keep, LAMBDA k : SelectSeq(s, LAMBDA x : x \in k))

(***************************************************************************)
(* PointEx                                                                 *)
(***************************************************************************)
left_neighbour(p) == <<p[1] - 1, p[2]>>
right_neighbour(p) == <<p[1] + 1, p[2]>>
up_neighbour(p) == <<p[1], p[2] - 1>>
down_neighbour(p) == <<p[1], p[2] + 1>>

get_neighbour(p, direction) ==
    IF direction = RIGHT THEN right_neighbour(p)
    ELSE IF direction = UP THEN up_neighbour(p)
    ELSE IF direction = LEFT THEN left_neighbour(p)
    ELSE IF direction = DOWN THEN down_neighbour(p)
    ELSE <<0, 0>>

neighbours(p) ==
    <<left_neighbour(p), right_neighbour(p), up_neighbour(p), down_neighbour(p)>>

is_neighbour(p, q) ==
    \/ p[1] = q[1] /\ (p[2] = q[2] + 1 \/ p[2] = q[2] - 1)
    \/ p[2] = q[2] /\ (p[1] = q[1] + 1 \/ p[1] = q[1] - 1)

\* The direction from p to the adjacent point q.  The code raises for a q that
\* is not on p's row or column, or is p itself: PITCH_ERROR stands for that.
PITCH_ERROR == -1

get_pitch_to_neighbour(p, q) ==
    LET dx == q[1] - p[1]
        dy == q[2] - p[2]
    IN  IF dy = 0 /\ dx > 0 THEN RIGHT
        ELSE IF dy = 0 /\ dx < 0 THEN LEFT
        ELSE IF dy # 0 /\ dx = 0 /\ dy > 0 THEN UP
        ELSE IF dy # 0 /\ dx = 0 /\ dy < 0 THEN DOWN
        ELSE PITCH_ERROR

(***************************************************************************)
(* PathPlanning                                                            *)
(***************************************************************************)
MOVE_COST == 1
TURN_COST == 1
GRID_WIDTH == 21
GRID_HEIGHT == 21

GRID_SIZE == <<GRID_WIDTH, GRID_HEIGHT>>

manhattan(p1, p2) == Abs(p1[1] - p2[1]) + Abs(p1[2] - p2[2])

\* The planner's own direction table, in its order of generation.
directions == << <<1, 0, RIGHT>>, <<-1, 0, LEFT>>, <<0, 1, UP>>, <<0, -1, DOWN>> >>

\* A variant of step_cost that forgets the turn.
step_cost_no_turn(direction, current_orientation) == MOVE_COST

\* The cost of stepping in `direction` for an AGV facing `current_orientation`.
step_cost(direction, current_orientation) ==
    MOVE_COST + (IF direction # current_orientation THEN TURN_COST ELSE 0)

\* get_neighbors: the <<position, direction, cost>> of every in-bounds,
\* obstacle-free neighbour, in the order of the direction table.
RECURSIVE get_neighbors_from(_, _, _, _, _)
get_neighbors_from(k, pos, current_orientation, obstacles, size) ==
    IF k > Len(directions) THEN <<>>
    ELSE LET d == directions[k]
             nx == pos[1] + d[1]
             ny == pos[2] + d[2]
             rest == get_neighbors_from(k + 1, pos, current_orientation, obstacles, size)
         IN  IF /\ 1 <= nx /\ nx <= size[1]
                /\ 1 <= ny /\ ny <= size[2]
                /\ <<nx, ny>> \notin obstacles
             THEN << <<(<<nx, ny>>), d[3], step_cost(d[3], current_orientation)>> >> \o rest
             ELSE rest

\* A variant of get_neighbors that tests the bounds only.
get_neighbors_ignoring_obstacles(pos, current_orientation, obstacles, size) ==
    get_neighbors_from(1, pos, current_orientation, {}, size)

get_neighbors(pos, current_orientation, obstacles, size) ==
    get_neighbors_from(1, pos, current_orientation, obstacles, size)

\* SimplePriorityQueue as the planner uses it: the queue is the sequence of its
\* entries in enqueue order, so an entry's place is its insertion index; dequeue
\* takes the entry of least (priority, insertion index).
dequeue_index(q) ==
    Bind(q, LAMBDA entries :
    Bind({entries[k].priority : k \in 1..Len(entries)}, LAMBDA priorities :
    Bind(SetMin(priorities), LAMBDA least :
    Bind({k \in 1..Len(entries) : entries[k].priority = least}, LAMBDA ks :
        SetMin(ks)))))

\* The entries enqueued when expanding an entry: one per neighbour whose
\* (position, orientation) is not visited.
RECURSIVE expand(_, _, _, _, _)
expand(k, ns, e, visited, goal) ==
    IF k > Len(ns) THEN <<>>
    ELSE IF <<ns[k][1], ns[k][2]>> \notin visited
    THEN << [priority |-> e.cost + ns[k][3] + manhattan(ns[k][1], goal),
             cost |-> e.cost + ns[k][3],
             pos |-> ns[k][1],
             orientation |-> ns[k][2],
             path |-> Append(e.path, ns[k][1])] >>
         \o expand(k + 1, ns, e, visited, goal)
    ELSE expand(k + 1, ns, e, visited, goal)

\* The loop's turn for the popped entry e, the frontier left being rest.
a_star_visit(st, e, rest, goal, obstacles, size) ==
    IF e.pos = goal
    THEN [st EXCEPT !.done = TRUE, !.path = e.path, !.cost = e.cost, !.frontier = rest]
    ELSE IF <<e.pos, e.orientation>> \in st.visited
    THEN [st EXCEPT !.frontier = rest]
    ELSE Bind(st.visited \cup {<<e.pos, e.orientation>>}, LAMBDA visited2 :
         Bind(get_neighbors(e.pos, e.orientation, obstacles, size), LAMBDA ns :
             [st EXCEPT !.frontier = rest \o expand(1, ns, e, visited2, goal),
                        !.visited = visited2]))

\* One turn of the main loop of a_star_with_orientation.  A search is its
\* frontier and visited set and, once it has returned, the path and the cost g
\* of the popped entry that reached the goal (the empty path when the frontier
\* ran empty).
a_star_step(st, goal, obstacles, size) ==
    IF st.done THEN st
    ELSE IF st.frontier = <<>> THEN [st EXCEPT !.done = TRUE]
    ELSE Bind(dequeue_index(st.frontier), LAMBDA i :
         Bind(st.frontier[i], LAMBDA e :
         Bind(remove_at(st.frontier, i), LAMBDA rest :
             a_star_visit(st, e, rest, goal, obstacles, size))))

\* n turns of the loop, or fewer when it returns before.
RECURSIVE a_star_turns(_, _, _, _, _)
a_star_turns(st, n, goal, obstacles, size) ==
    IF st.done \/ n = 0 THEN st
    ELSE IF n = 1 THEN a_star_step(st, goal, obstacles, size)
    ELSE Bind(<<n \div 2, n - (n \div 2)>>, LAMBDA c :
         Bind(a_star_turns(st, c[1], goal, obstacles, size), LAMBDA half :
             a_star_turns(half, c[2], goal, obstacles, size)))

\* The loop: turns until it returns.
RECURSIVE a_star_loop(_, _, _, _, _)
a_star_loop(st, n, goal, obstacles, size) ==
    Bind(a_star_turns(st, n, goal, obstacles, size), LAMBDA after :
        IF after.done THEN after ELSE a_star_loop(after, 2 * n, goal, obstacles, size))

\* A variant of a_star_start whose first entry carries an empty path.
a_star_start_empty_path(start, goal, orientation) ==
    [frontier |-> << [priority |-> manhattan(start, goal), cost |-> 0,
                      pos |-> start, orientation |-> orientation,
                      path |-> <<>>] >>,
     visited |-> {}, done |-> FALSE, path |-> <<>>, cost |-> 0]

a_star_start(start, goal, orientation) ==
    [frontier |-> << [priority |-> manhattan(start, goal), cost |-> 0,
                      pos |-> start, orientation |-> orientation,
                      path |-> <<start>>] >>,
     visited |-> {}, done |-> FALSE, path |-> <<>>, cost |-> 0]

a_star_entry(start, goal, orientation, obstacles, size) ==
    Bind(a_star_start(start, goal, orientation), LAMBDA st :
    Bind(goal, LAMBDA g :
    Bind(obstacles, LAMBDA obs :
        a_star_loop(st, 16, g, obs, size))))

\* a_star_with_orientation: the path, empty when there is none.
a_star_with_orientation(start, goal, orientation, obstacles, size) ==
    a_star_entry(start, goal, orientation, obstacles, size).path

\* calculate_path_timing: the PathTimePoints of a path.
RECURSIVE path_timing_from(_, _, _, _)
path_timing_from(path, i, current_time, current_pitch) ==
    IF i > Len(path) THEN <<>>
    ELSE Bind(get_pitch_to_neighbour(path[i - 1], path[i]), LAMBDA new_pitch :
         Bind(current_time
              + (IF new_pitch # current_pitch THEN TURN_COST ELSE 0)
              + MOVE_COST, LAMBDA t :
             << [position |-> path[i], time_cost |-> t] >>
             \o path_timing_from(path, i + 1, t, new_pitch)))

calculate_path_timing(path, initial_pitch) ==
    Bind(path, LAMBDA p :
        IF p = <<>> THEN <<>>
        ELSE << [position |-> p[1], time_cost |-> 0] >>
             \o path_timing_from(p, 2, 0, initial_pitch))

(***************************************************************************)
(* State                                                                   *)
(***************************************************************************)
VARIABLES
    map_elements,        \* AgvContext.map_elements: [type, name, x, y, pitch]
    tasks,               \* AgvContext.tasks: the TaskEx list
    agvs,                \* AgvContext.agvs: the Agv list
    fixed_map_obstacles, \* AgvContext.fixed_map_obstacles: a list of points
    trajectory_records,  \* TrajectoryRecorderService.trajectory_records
    timestamp,           \* SchedulerService.timestamp
    pc,                  \* where the scheduler stands
    caller,              \* who invoked the running process(): "loop" or "direct"
    extra_ticks,         \* process() calls made after process_to_complete returned
    handled_agvs,        \* process(): handled_agvs
    pending_tasks,       \* process(): pending_tasks of the assign phase
    temp_assignments,    \* process(): temp_assignments, <<agv, task>> in insertion order
    batch,               \* _batch_move_agvs: its arguments and locals
    park,                \* process(): the parking loop's list and position
    plan,                \* the planner's call under test: its input and its result
    queue,               \* the SimplePriorityQueue under test and the outcome of its last call
    pointex              \* the PointEx under test, the arguments and the outcome of its last call

vars == <<map_elements, tasks, agvs, fixed_map_obstacles, trajectory_records,
          timestamp, pc, caller, extra_ticks, handled_agvs, pending_tasks,
          temp_assignments, batch, park, plan, queue, pointex>>

(***************************************************************************)
(* TaskPriority, MapElementType                                            *)
(***************************************************************************)
NORMAL == 0
HIGH == 1

START_POINT == "StartPoint"
END_POINT == "EndPoint"
AGV == "Agv"

(***************************************************************************)
(* TaskEx                                                                  *)
(***************************************************************************)
\* TaskEx.__init__: the pickup position lies left of a start point with x > 10
\* and right of any other.
PICKUP_MIDDLE_X == 10

pickup_position_of(start_position) ==
    IF start_position[1] > PICKUP_MIDDLE_X
    THEN left_neighbour(start_position)
    ELSE right_neighbour(start_position)

TaskEx(task_record, start_position, end_position) ==
    [task_id |-> task_record.task_id,
     start_point |-> task_record.start_point,
     end_point |-> task_record.end_point,
     priority |-> task_record.priority,
     start_position |-> start_position,
     end_position |-> end_position,
     pickup_position |-> pickup_position_of(start_position),
     agv |-> None,
     start_timestamp |-> 0,
     complete_timestamp |-> 0,
     is_completed |-> FALSE]

\* A variant of is_pending that holds until the task is completed.
is_pending_until_completed(task) == ~task.is_completed

is_pending(task) == task.agv = None

is_running(task) == ~is_pending(task) /\ ~task.is_completed

load_by(task, agv, start_timestamp) ==
    [task EXCEPT !.agv = agv, !.start_timestamp = start_timestamp]

\* A variant of task_unload that also drops the task's AGV.
task_unload_releases(task, complete_timestamp) ==
    [task EXCEPT !.complete_timestamp = complete_timestamp, !.is_completed = TRUE,
                 !.agv = None]

task_unload(task, complete_timestamp) ==
    [task EXCEPT !.complete_timestamp = complete_timestamp, !.is_completed = TRUE]

(***************************************************************************)
(* Agv                                                                     *)
(***************************************************************************)
Agv(name, position, pitch) ==
    [name |-> name, position |-> position, pitch |-> pitch, is_loaded |-> FALSE,
     loaded_task |-> None, path_time_points |-> <<>>]

\* Agv.load, the AGV's side; the task's side is load_by.
agv_load(a, task) == [a EXCEPT !.is_loaded = TRUE, !.loaded_task = task]

\* A variant of agv_unload that keeps the task reference.
agv_unload_keeps_task(a) ==
    [a EXCEPT !.path_time_points = <<>>, !.is_loaded = FALSE]

\* A variant of agv_unload that keeps the path.
agv_unload_keeps_path(a) ==
    [a EXCEPT !.is_loaded = FALSE, !.loaded_task = None]

\* Agv.unload, the AGV's side; the task's side is task_unload.
agv_unload(a) ==
    [a EXCEPT !.path_time_points = <<>>, !.is_loaded = FALSE, !.loaded_task = None]

\* A variant of can_unload that waits for the AGV to stand on the end position.
can_unload_on_end(a, ts) ==
    /\ a.is_loaded
    /\ a.loaded_task # None
    /\ a.position = ts[a.loaded_task].end_position

can_unload(a, ts) ==
    /\ a.is_loaded
    /\ a.loaded_task # None
    /\ is_neighbour(a.position, ts[a.loaded_task].end_position)

next_pitch(a) == get_pitch_to_neighbour(a.position, a.path_time_points[2].position)

should_turn(a) == Len(a.path_time_points) > 1 /\ next_pitch(a) # a.pitch

should_move(a) == Len(a.path_time_points) > 1 /\ next_pitch(a) = a.pitch

\* Agv.turn(specified_pitch)
turn_to(a, specified_pitch) == [a EXCEPT !.pitch = specified_pitch]

\* Agv.turn(): face the next cell of the path; the turn takes one time unit
\* off every later point.
turn(a) ==
    IF Len(a.path_time_points) > 1
    THEN [a EXCEPT !.pitch = next_pitch(a),
                   !.path_time_points =
                       [i \in 1..Len(a.path_time_points) |->
                           IF i = 1 THEN a.path_time_points[i]
                           ELSE [a.path_time_points[i] EXCEPT !.time_cost = @ - 1]]]
    ELSE a

\* A variant of move that leaves the time costs as they were.
move_keeps_costs(a) ==
    IF Len(a.path_time_points) > 1
    THEN [a EXCEPT !.position = a.path_time_points[2].position,
                   !.path_time_points = Tail(a.path_time_points)]
    ELSE a

\* Agv.move(): step to the next cell of the path and drop the cell left.
move(a) ==
    IF Len(a.path_time_points) > 1
    THEN [a EXCEPT !.position = a.path_time_points[2].position,
                   !.path_time_points =
                       Tail([i \in 1..Len(a.path_time_points) |->
                           [a.path_time_points[i] EXCEPT !.time_cost = @ - 1]])]
    ELSE a

(***************************************************************************)
(* TrajectoryRecorderService                                               *)
(***************************************************************************)
record_of(a, ts, t) ==
    [timestamp |-> t,
     name |-> a.name,
     X |-> a.position[1],
     Y |-> a.position[2],
     pitch |-> a.pitch,
     loaded |-> IF a.is_loaded THEN "true" ELSE "false",
     destination |-> IF a.loaded_task # None THEN ts[a.loaded_task].end_point ELSE "",
     Emergency |-> IF a.loaded_task # None /\ ts[a.loaded_task].priority = HIGH
                   THEN "true" ELSE "false",
     TaskId |-> IF a.loaded_task # None THEN ts[a.loaded_task].task_id ELSE ""]

\* A variant of recorder_add that stops after the first AGV.
recorder_add_first(records, as, ts, t) ==
    records \o [i \in 1..(IF Len(as) > 0 THEN 1 ELSE 0) |-> record_of(as[i], ts, t)]

\* TrajectoryRecorderService.add: one row per AGV, in the order of the AGV list.
recorder_add(records, as, ts, t) ==
    records \o [i \in 1..Len(as) |-> record_of(as[i], ts, t)]

(***************************************************************************)
(* AgvContext                                                              *)
(***************************************************************************)
\* AgvContext._get_position_by_name: the first element of that type and name.
get_position_by_name(elements, element_type, name) ==
    LET i == SetMin({k \in 1..Len(elements) :
                        elements[k].type = element_type /\ elements[k].name = name})
    IN  <<elements[i].x, elements[i].y>>

context_tasks(elements, task_records) ==
    [k \in 1..Len(task_records) |->
        TaskEx(task_records[k],
               get_position_by_name(elements, START_POINT, task_records[k].start_point),
               get_position_by_name(elements, END_POINT, task_records[k].end_point))]

context_agvs(elements) ==
    LET es == SelectSeq(elements, LAMBDA e : e.type = AGV)
    IN  [k \in 1..Len(es) |-> Agv(es[k].name, <<es[k].x, es[k].y>>, es[k].pitch)]

\* A variant of context_fixed_map_obstacles without the ring.
context_fixed_map_obstacles_no_ring(elements) ==
    LET ps == SelectSeq(elements, LAMBDA e : e.type \in {START_POINT, END_POINT})
    IN  [k \in 1..Len(ps) |-> <<ps[k].x, ps[k].y>>]

\* The fixed obstacles: the start and end point cells, then the ring around the
\* bounding box of all map elements, in the order the constructor appends them.
context_fixed_map_obstacles(elements) ==
    LET ps == SelectSeq(elements, LAMBDA e : e.type \in {START_POINT, END_POINT})
        xs == {elements[k].x : k \in 1..Len(elements)}
        ys == {elements[k].y : k \in 1..Len(elements)}
        min_x == SetMin(xs)
        max_x == SetMax(xs)
        min_y == SetMin(ys)
        max_y == SetMax(ys)
        nx == max_x - min_x + 3
        ny == max_y - min_y + 3
    IN  [k \in 1..Len(ps) |-> <<ps[k].x, ps[k].y>>]
        \o [k \in 1..(2 * nx) |->
               <<min_x - 1 + ((k - 1) \div 2),
                 IF k % 2 = 1 THEN min_y - 1 ELSE max_y + 1>>]
        \o [k \in 1..(2 * ny) |->
               <<IF k % 2 = 1 THEN min_x - 1 ELSE max_x + 1,
                 min_y - 1 + ((k - 1) \div 2)>>]

\* A variant of all_tasks_completed that is content with one completed task.
any_task_completed(ts) == \E k \in 1..Len(ts) : ts[k].is_completed

all_tasks_completed(ts) == \A k \in 1..Len(ts) : ts[k].is_completed

MIDDLE_Y == 10

\* A variant of sort_key that puts the priority before the sequence index.
sort_key_priority_first(ts, k) ==
    LET group == {j \in 1..Len(ts) : is_pending(ts[j]) /\ ts[j].start_point = ts[k].start_point}
        sequence_index == Cardinality({j \in group : j < k})
        priority_value == -ts[k].priority
        has_high_priority_value == IF \E j \in group : ts[j].priority = HIGH THEN -1 ELSE 0
        queue_length == -Cardinality(group)
        y_position == IF ts[k].pickup_position[2] # MIDDLE_Y THEN 0 ELSE 1
    IN  <<priority_value, sequence_index, has_high_priority_value, queue_length, y_position>>

\* The sort key of get_sorted_pending_tasks for task k among the pending tasks.
sort_key(ts, k) ==
    LET group == {j \in 1..Len(ts) : is_pending(ts[j]) /\ ts[j].start_point = ts[k].start_point}
        sequence_index == Cardinality({j \in group : j < k})
        priority_value == -ts[k].priority
        has_high_priority_value == IF \E j \in group : ts[j].priority = HIGH THEN -1 ELSE 0
        queue_length == -Cardinality(group)
        y_position == IF ts[k].pickup_position[2] # MIDDLE_Y THEN 0 ELSE 1
    IN  <<sequence_index, priority_value, has_high_priority_value, queue_length, y_position>>

\* Tuple order of Python: lexicographic.
RECURSIVE key_less(_, _)
key_less(k1, k2) ==
    IF k1 = <<>> THEN FALSE
    ELSE IF Head(k1) # Head(k2) THEN Head(k1) < Head(k2)
    ELSE key_less(Tail(k1), Tail(k2))

\* A variant of insert_sorted that puts x before the elements of equal key.
RECURSIVE insert_before_equal(_, _, _)
insert_before_equal(sorted, x, ts) ==
    IF sorted = <<>> THEN <<x>>
    ELSE IF ~key_less(sort_key(ts, Head(sorted)), sort_key(ts, x))
    THEN <<x>> \o sorted
    ELSE <<Head(sorted)>> \o insert_before_equal(Tail(sorted), x, ts)

\* list.sort(key): stable; x goes after every element whose key is not greater.
RECURSIVE insert_sorted(_, _, _)
insert_sorted(sorted, x, ts) ==
    IF sorted = <<>> THEN <<x>>
    ELSE IF key_less(sort_key(ts, x), sort_key(ts, Head(sorted)))
    THEN <<x>> \o sorted
    ELSE <<Head(sorted)>> \o insert_sorted(Tail(sorted), x, ts)

RECURSIVE sort_from(_, _, _)
sort_from(sorted, rest, ts) ==
    IF rest = <<>> THEN sorted
    ELSE sort_from(insert_sorted(sorted, Head(rest), ts), Tail(rest), ts)

\* get_sorted_pending_tasks: the indices of the pending tasks, sorted.
get_sorted_pending_tasks(ts) ==
    sort_from(<<>>, SelectSeq2([k \in 1..Len(ts) |-> k],
                               {k \in 1..Len(ts) : is_pending(ts[k])}), ts)

(***************************************************************************)
(* SchedulerService: planning helpers                                      *)
(***************************************************************************)
MAX_TIMESTAMP == 400

\* A variant of build_obstacles that leaves the fixed obstacles out.
build_obstacles_additional_only(fixed, additional_obstacles) == additional_obstacles

\* _build_obstacles: a copy of the fixed obstacles with the additional ones appended.
build_obstacles(fixed, additional_obstacles) == fixed \o additional_obstacles

\* The neighbours of AGV b's cell left free by the fixed obstacles and by the
\* AGVs next to b.
free_neighbours(b, as, fixed) ==
    Without(Without(neighbours(as[b].position), Range(fixed)),
            {as[x].position : x \in {x \in 1..Len(as) :
                x # b /\ is_neighbour(as[x].position, as[b].position)}})

\* _get_obstacles: the occupied neighbours of AGV a's cell, then, for every other
\* AGV with a single free neighbour, that neighbour when it is next to a.
RECURSIVE cross_lock_obstacles(_, _, _, _)
cross_lock_obstacles(b, a, as, fixed) ==
    IF b > Len(as) THEN <<>>
    ELSE IF b = a THEN cross_lock_obstacles(b + 1, a, as, fixed)
    ELSE Bind(free_neighbours(b, as, fixed), LAMBDA ns :
             (IF Len(ns) = 1 /\ ns[1] \in Range(neighbours(as[a].position))
              THEN <<ns[1]>> ELSE <<>>)
             \o cross_lock_obstacles(b + 1, a, as, fixed))

\* A variant of get_obstacles that leaves out the occupied neighbours.
get_obstacles_cross_lock_only(a, as, fixed) == cross_lock_obstacles(1, a, as, fixed)

\* A variant of get_obstacles that leaves out the cross-lock cells.
get_obstacles_occupied_only(a, as, fixed) ==
    SelectSeq2(neighbours(as[a].position), {as[x].position : x \in 1..Len(as)})

get_obstacles(a, as, fixed) ==
    SelectSeq2(neighbours(as[a].position), {as[x].position : x \in 1..Len(as)})
    \o cross_lock_obstacles(1, a, as, fixed)

calculate_path_to_pickup_position(a, task, additional_obstacles, fixed) ==
    a_star_with_orientation(a.position, task.pickup_position, a.pitch,
                            Range(build_obstacles(fixed, additional_obstacles)), GRID_SIZE)

\* The end position is removed once from the obstacle list before planning.
calculate_path_to_end_point(a, task, additional_obstacles, fixed) ==
    a_star_with_orientation(a.position, task.end_position, a.pitch,
                            Range(RemoveFirst(build_obstacles(fixed, additional_obstacles),
                                              task.end_position)), GRID_SIZE)

(***************************************************************************)
(* SchedulerService.process: the phases that visit every AGV at once.  A   *)
(* world w is [agvs, tasks, handled].                                      *)
(***************************************************************************)
\* 1. unload
RECURSIVE unload_phase(_, _, _)
unload_phase(i, w, t) ==
    IF i > Len(w.agvs) THEN w
    ELSE IF i \notin Range(w.handled) /\ can_unload(w.agvs[i], w.tasks)
    THEN unload_phase(i + 1,
             [agvs |-> [w.agvs EXCEPT ![i] = agv_unload(@)],
              tasks |-> [w.tasks EXCEPT ![w.agvs[i].loaded_task] = task_unload(@, t)],
              handled |-> Append(w.handled, i)], t)
    ELSE unload_phase(i + 1, w, t)

\* A variant of first_at that takes the last such task of the list.
last_at(position, task_list, ts) ==
    LET ks == {k \in 1..Len(task_list) : ts[task_list[k]].pickup_position = position}
    IN  IF ks = {} THEN None ELSE task_list[SetMax(ks)]

\* 2. load: the first task of the list whose pickup position is the AGV's cell.
first_at(position, task_list, ts) ==
    LET ks == {k \in 1..Len(task_list) : ts[task_list[k]].pickup_position = position}
    IN  IF ks = {} THEN None ELSE task_list[SetMin(ks)]

\* A variant of load_phase that does not mark the loading AGV as handled.
RECURSIVE load_phase_unmarked(_, _, _, _)
load_phase_unmarked(i, w, pending_load_tasks, t) ==
    IF i > Len(w.agvs) THEN w
    ELSE IF i \in Range(w.handled) \/ w.agvs[i].is_loaded
    THEN load_phase_unmarked(i + 1, w, pending_load_tasks, t)
    ELSE LET k == first_at(w.agvs[i].position, pending_load_tasks, w.tasks)
         IN  IF k = None THEN load_phase_unmarked(i + 1, w, pending_load_tasks, t)
             ELSE load_phase_unmarked(i + 1,
                      [agvs |-> [w.agvs EXCEPT ![i] = agv_load(@, k)],
                       tasks |-> [w.tasks EXCEPT ![k] = load_by(@, i, t)],
                       handled |-> w.handled],
                      pending_load_tasks, t)

RECURSIVE load_phase(_, _, _, _)
load_phase(i, w, pending_load_tasks, t) ==
    IF i > Len(w.agvs) THEN w
    ELSE IF i \in Range(w.handled) \/ w.agvs[i].is_loaded
    THEN load_phase(i + 1, w, pending_load_tasks, t)
    ELSE LET k == first_at(w.agvs[i].position, pending_load_tasks, w.tasks)
         IN  IF k = None THEN load_phase(i + 1, w, pending_load_tasks, t)
             ELSE load_phase(i + 1,
                      [agvs |-> [w.agvs EXCEPT ![i] = agv_load(@, k)],
                       tasks |-> [w.tasks EXCEPT ![k] = load_by(@, i, t)],
                       handled |-> Append(w.handled, i)],
                      pending_load_tasks, t)

\* 4. turn loaded
\* A variant of turn_loaded_phase that turns no AGV.
turn_loaded_phase_none(i, w) == w

RECURSIVE turn_loaded_phase(_, _)
turn_loaded_phase(i, w) ==
    IF i > Len(w.agvs) THEN w
    ELSE IF i \notin Range(w.handled) /\ w.agvs[i].is_loaded /\ should_turn(w.agvs[i])
    THEN turn_loaded_phase(i + 1,
             [w EXCEPT !.agvs[i] = turn(@), !.handled = Append(@, i)])
    ELSE turn_loaded_phase(i + 1, w)

\* 5. assign idle.  The option of an AGV is its timed path to the pickup position;
\* the options are sorted by the time of the last point, an empty path last, and
\* the first one wins.
INFINITY == 1000000

option_time(path_time_points) ==
    IF path_time_points # <<>>
    THEN path_time_points[Len(path_time_points)].time_cost
    ELSE INFINITY

assignment_option(a, task, as, fixed) ==
    calculate_path_timing(
        calculate_path_to_pickup_position(as[a], task, get_obstacles(a, as, fixed), fixed),
        as[a].pitch)

\* The place in idle_agvs of the option that sorts first: the earliest of least time.
RECURSIVE best_option(_, _, _)
best_option(options, k, best) ==
    IF k > Len(options) THEN best
    ELSE Bind(IF option_time(options[k]) < option_time(options[best]) THEN k ELSE best,
              LAMBDA best2 : best_option(options, k + 1, best2))

\* The options of the idle AGVs for a task, in the order of idle_agvs.
RECURSIVE agv_options(_, _, _, _, _)
agv_options(k, idle_agvs, task, as, fixed) ==
    IF k > Len(idle_agvs) THEN <<>>
    ELSE << assignment_option(idle_agvs[k], task, as, fixed) >>
         \o agv_options(k + 1, idle_agvs, task, as, fixed)

RECURSIVE assign_phase(_, _, _, _, _, _)
assign_phase(task_list, idle_agvs, as, assignments, ts, fixed) ==
    IF task_list = <<>> \/ idle_agvs = <<>>
    THEN [agvs |-> as, assignments |-> assignments]
    ELSE Bind(agv_options(1, idle_agvs, ts[Head(task_list)], as, fixed), LAMBDA options :
         Bind(best_option(options, 2, 1), LAMBDA sel :
         Bind([as EXCEPT ![idle_agvs[sel]].path_time_points = options[sel]], LAMBDA as2 :
         Bind(remove_at(idle_agvs, sel), LAMBDA idle2 :
         Bind(Append(assignments, <<idle_agvs[sel], Head(task_list)>>), LAMBDA assignments2 :
             assign_phase(Tail(task_list), idle2, as2, assignments2, ts, fixed))))))

\* 6. turn idle: every assigned AGV that should turn, as of before any turn.
RECURSIVE turn_idle_phase(_, _)
turn_idle_phase(turn_agvs, as) ==
    IF turn_agvs = <<>> THEN as
    ELSE turn_idle_phase(Tail(turn_agvs), [as EXCEPT ![Head(turn_agvs)] = turn(@)])

\* A variant of assigned_agvs that lists the assigned AGVs in the order of the
\* AGV list.
assigned_agvs_declared(assignments) ==
    SelectSeq2([a \in 1..SetMax({0} \cup {assignments[k][1] : k \in 1..Len(assignments)}) |-> a],
               {assignments[k][1] : k \in 1..Len(assignments)})

\* temp_assignments.keys(): the assigned AGVs in the order of their assignment.
assigned_agvs(assignments) == [k \in 1..Len(assignments) |-> assignments[k][1]]

assigned_task(assignments, a) ==
    assignments[CHOOSE k \in 1..Len(assignments) : assignments[k][1] = a][2]

(***************************************************************************)
(* _batch_move_agvs: one visit of its loop                                 *)
(***************************************************************************)
batch0 == [agvs |-> <<>>, i |-> 1, is_assigned |-> FALSE, moved_items |-> <<>>,
           is_loaded |-> FALSE, passes |-> 0, pass_start |-> 0]

park0 == [agvs |-> <<>>, i |-> 1]

\* SimplePriorityQueue.__init__, with no call made yet; returned holds the item
\* the last call returned, if it returned one.
pointex0 == [p |-> <<0, 0>>, direction |-> RIGHT, neighbour |-> <<0, 0>>, call |-> "none",
             raised |-> FALSE]

queue0 == [heap |-> <<>>, index |-> 0, call |-> "none", enqueues |-> 0, dequeues |-> 0,
           returned |-> <<>>, raised |-> FALSE]

plan0 == [start |-> <<1, 1>>, goal |-> <<1, 1>>, orientation |-> RIGHT, obstacles |-> {},
          size |-> GRID_SIZE, done |-> FALSE, path |-> <<>>, cost |-> 0]

\* A variant of batch_eligible that visits the handled candidates again.
batch_eligible_again(a) == agvs[a].is_loaded = batch.is_loaded

\* The candidates the loop does not skip at once.
batch_eligible(a) == a \notin Range(handled_agvs) /\ agvs[a].is_loaded = batch.is_loaded

\* The place of the first such candidate from place i on in a pass, 0 if none.
next_in_pass(i) ==
    LET js == {j \in i..Len(batch.agvs) : batch_eligible(batch.agvs[j])}
    IN  IF js = {} THEN 0 ELSE SetMin(js)

\* The next candidate the loop plans for: in this pass, or, when this pass
\* handled an AGV, in the next one.  j = 0: the loop ends.
batch_target ==
    LET j == next_in_pass(batch.i)
    IN  IF j # 0 THEN [j |-> j, new_pass |-> batch.passes = 0]
        ELSE IF batch.is_assigned THEN [j |-> next_in_pass(1), new_pass |-> TRUE]
        ELSE [j |-> 0, new_pass |-> FALSE]

\* The cross-lock test of candidate a against one moved item.
cross_lock_turn(a, task, item, as, ts) ==
    LET m == as[item.agv]
        moved_task == ts[item.task]
        horizontal == a.pitch \in {LEFT, RIGHT}
        vertical == a.pitch \in {UP, DOWN}
    IN  IF m.pitch # a.pitch THEN [should_turn |-> FALSE, turn_direction |-> RIGHT]
        ELSE IF /\ horizontal
                /\ item.pos[1] = a.position[1]
                /\ item.pos[2] = a.position[2] + 1
                /\ task.end_position[2] > a.position[2]
                /\ moved_task.end_position[2] <= m.position[2]
        THEN [should_turn |-> TRUE, turn_direction |-> UP]
        ELSE IF /\ horizontal
                /\ item.pos[1] = a.position[1]
                /\ item.pos[2] = a.position[2] - 1
                /\ task.end_position[2] < a.position[2]
                /\ moved_task.end_position[2] >= m.position[2]
        THEN [should_turn |-> TRUE, turn_direction |-> DOWN]
        ELSE IF /\ vertical
                /\ item.pos[2] = a.position[2]
                /\ item.pos[1] = a.position[1] - 1
                /\ task.end_position[1] < a.position[1]
                /\ moved_task.end_position[1] >= m.position[1]
        THEN [should_turn |-> TRUE, turn_direction |-> LEFT]
        ELSE IF /\ vertical
                /\ item.pos[2] = a.position[2]
                /\ item.pos[1] = a.position[1] + 1
                /\ task.end_position[1] > a.position[1]
                /\ moved_task.end_position[1] <= m.position[1]
        THEN [should_turn |-> TRUE, turn_direction |-> RIGHT]
        ELSE [should_turn |-> FALSE, turn_direction |-> RIGHT]

\* A variant of cross_lock_check that never mandates a turn.
cross_lock_check_never(a, task, moved_items, as, ts) ==
    [should_turn |-> FALSE, turn_direction |-> RIGHT]

\* The first moved item that mandates a turn decides.
RECURSIVE cross_lock_check(_, _, _, _, _)
cross_lock_check(a, task, moved_items, as, ts) ==
    IF moved_items = <<>> THEN [should_turn |-> FALSE, turn_direction |-> RIGHT]
    ELSE LET r == cross_lock_turn(a, task, Head(moved_items), as, ts)
         IN  IF r.should_turn THEN r
             ELSE cross_lock_check(a, task, Tail(moved_items), as, ts)

\* The replanned path of candidate a.
batch_replan(a, task_id) ==
    LET obstacles == get_obstacles(a, agvs, fixed_map_obstacles)
        path == IF batch.is_loaded
                THEN calculate_path_to_end_point(agvs[a], tasks[task_id], obstacles,
                                                 fixed_map_obstacles)
                ELSE calculate_path_to_pickup_position(agvs[a], tasks[task_id], obstacles,
                                                       fixed_map_obstacles)
    IN  calculate_path_timing(path, agvs[a].pitch)

(***************************************************************************)
(* The parking phase: one visit of its loop                                *)
(***************************************************************************)
PARK_EDGE_MAX == 20
PARK_EDGE_MIN == 1

\* The edge cells of the AGV's row and column with no loaded AGV in between,
\* in the order up, down, right, left.
park_points(a, as) ==
    LET x == as[a].position[1]
        y == as[a].position[2]
        loaded == {b \in 1..Len(as) : as[b].is_loaded}
    IN  (IF ~\E b \in loaded : as[b].position[1] = x /\ as[b].position[2] > y
         THEN << <<x, PARK_EDGE_MAX>> >> ELSE <<>>)
        \o (IF ~\E b \in loaded : as[b].position[1] = x /\ as[b].position[2] < y
            THEN << <<x, PARK_EDGE_MIN>> >> ELSE <<>>)
        \o (IF ~\E b \in loaded : as[b].position[1] > x /\ as[b].position[2] = y
            THEN << <<PARK_EDGE_MAX, y>> >> ELSE <<>>)
        \o (IF ~\E b \in loaded : as[b].position[1] < x /\ as[b].position[2] = y
            THEN << <<PARK_EDGE_MIN, y>> >> ELSE <<>>)

\* A variant of nearest that takes the first point of greatest distance.
RECURSIVE farthest(_, _, _, _)
farthest(points, k, best, from) ==
    IF k > Len(points) THEN points[best]
    ELSE Bind(IF manhattan(points[k], from) > manhattan(points[best], from) THEN k ELSE best,
              LAMBDA best2 : farthest(points, k + 1, best2, from))

\* min(points, key=distance): the first point of least distance.
RECURSIVE nearest(_, _, _, _)
nearest(points, k, best, from) ==
    IF k > Len(points) THEN points[best]
    ELSE Bind(IF manhattan(points[k], from) < manhattan(points[best], from) THEN k ELSE best,
              LAMBDA best2 : nearest(points, k + 1, best2, from))

park_agv(a, as, fixed) ==
    Bind(park_points(a, as), LAMBDA points :
        IF points = <<>> THEN as[a]
        ELSE LET goal == nearest(points, 2, 1, as[a].position)
                 obstacles == build_obstacles(fixed, get_obstacles(a, as, fixed))
                 path == a_star_with_orientation(as[a].position, goal, as[a].pitch,
                                                 Range(obstacles), GRID_SIZE)
             IN  Bind([as[a] EXCEPT !.path_time_points =
                                        calculate_path_timing(path, as[a].pitch)], LAMBDA a1 :
                     IF should_move(a1) THEN move(a1)
                     ELSE IF should_turn(a1) THEN turn(a1)
                     ELSE a1))

(***************************************************************************)
(* Scenarios: the map and task files the context is built from             *)
(***************************************************************************)
MaxExtraTicks == 2

Elem(type, name, x, y, pitch) ==
    [type |-> type, name |-> name, x |-> x, y |-> y, pitch |-> pitch]

TaskRec(task_id, start_point, end_point, priority) ==
    [task_id |-> task_id, start_point |-> start_point, end_point |-> end_point,
     priority |-> priority]

\* Scenario 1 of the specification: one AGV, one task, one row.
LineScenario ==
    [map_elements |-> << Elem(AGV, "A1", 2, 2, RIGHT), Elem(START_POINT, "S1", 5, 2, None),
                         Elem(END_POINT, "E1", 8, 2, None) >>,
     task_records |-> << TaskRec("T1", "S1", "E1", NORMAL) >>]

\* A corner of the warehouse: two start points on the left wall, an end point
\* at the bottom right, two AGVs.  The map file is not validated: the second
\* AGV may start on the first one's cell (also on a pickup position) or on a
\* start point.
CornerPoints ==
    << Elem(START_POINT, "S1", 1, 3, None), Elem(START_POINT, "S2", 1, 1, None),
       Elem(END_POINT, "E1", 4, 1, None) >>

CornerTaskLists ==
    { <<>>,
      << TaskRec("T1", "S1", "E1", NORMAL) >>,
      << TaskRec("T1", "S1", "E1", NORMAL), TaskRec("T2", "S1", "E1", HIGH) >>,
      << TaskRec("T1", "S1", "E1", NORMAL), TaskRec("T2", "S2", "E1", HIGH) >>,
      << TaskRec("T1", "S2", "E1", HIGH), TaskRec("T2", "S1", "E1", NORMAL) >> }

CornerScenarios ==
    { [map_elements |-> << Elem(AGV, "A1", p1[1], p1[2], d1), Elem(AGV, "A2", p2[1], p2[2], d2) >>
                        \o CornerPoints,
       task_records |-> tl] :
        p1 \in {<<2, 3>>, <<3, 2>>, <<4, 3>>}, d1 \in {RIGHT, DOWN},
        p2 \in {<<2, 2>>, <<3, 2>>, <<1, 3>>, <<4, 2>>, <<2, 3>>}, d2 \in {LEFT, UP},
        tl \in CornerTaskLists }

\* The warehouse after the work is done: the points of the corner and an end
\* point at the far corner of the grid, no task, two AGVs in the interior or on
\* an edge line, one of them possibly in the other's way to its edge.
ParkPoints == CornerPoints \o << Elem(END_POINT, "E2", GRID_WIDTH, GRID_HEIGHT, None) >>

ParkScenarios ==
    { [map_elements |-> << Elem(AGV, "A1", p1[1], p1[2], d1), Elem(AGV, "A2", p2[1], p2[2], d2) >>
                        \o ParkPoints,
       task_records |-> <<>>] :
        p1 \in {<<5, 3>>, <<19, 19>>}, d1 \in {RIGHT, UP},
        p2 \in {<<5, 2>>, <<21, 20>>, <<18, 19>>}, d2 \in {LEFT, DOWN} }

\* One row with two start points right of the middle: the pickup position of
\* S1 lies between the two start points, out of reach; that of S2 is next to
\* the AGV.  The task of S1 comes first in the task file.
StarveScenario ==
    [map_elements |-> << Elem(AGV, "A1", 12, 2, LEFT), Elem(START_POINT, "S1", 16, 2, None),
                         Elem(START_POINT, "S2", 14, 2, None), Elem(END_POINT, "E1", 10, 2, None),
                         Elem(END_POINT, "E2", 18, 2, None) >>,
     task_records |-> << TaskRec("T1", "S1", "E2", NORMAL), TaskRec("T2", "S2", "E1", NORMAL) >>]

\* Two AGVs one above the other, both facing the start points on the left
\* wall; the upper one is sent to the lower end point and the lower one to the
\* upper end point.
CrossScenario ==
    [map_elements |-> << Elem(AGV, "A1", 4, 3, LEFT), Elem(AGV, "A2", 4, 2, LEFT),
                         Elem(START_POINT, "S1", 1, 3, None), Elem(START_POINT, "S2", 1, 1, None),
                         Elem(END_POINT, "E1", 6, 1, None), Elem(END_POINT, "E2", 6, 4, None) >>,
     task_records |-> << TaskRec("T1", "S1", "E1", NORMAL), TaskRec("T2", "S2", "E2", NORMAL) >>]

\* The corner with one AGV in the pocket between the two start points, whose
\* only way out is the cell (2, 2), and the other AGV two cells to its right,
\* whose shortest way to the pickup position of S2 leads through that cell.
PocketScenario ==
    [map_elements |-> << Elem(AGV, "A1", 3, 2, UP), Elem(AGV, "A2", 1, 2, LEFT) >> \o CornerPoints,
     task_records |-> << TaskRec("T1", "S2", "E1", NORMAL) >>]

\* The corner with three AGVs and two tasks of S2: A3 and A1 load one after the
\* other, A2 waits without a task on one of the two cells next to the end
\* point, and A1 reaches the other one ahead of A3.
BlockedScenario ==
    [map_elements |-> << Elem(AGV, "A1", 3, 1, UP), Elem(AGV, "A2", 4, 3, DOWN),
                         Elem(AGV, "A3", 2, 2, DOWN) >> \o CornerPoints,
     task_records |-> << TaskRec("T1", "S2", "E1", NORMAL), TaskRec("T2", "S2", "E1", NORMAL) >>]

\* The corner with both AGVs on pickup positions, one task each: A1 carries
\* its task down the column that A2, listed after it, still has to leave.
FollowScenario ==
    [map_elements |-> << Elem(AGV, "A1", 2, 3, DOWN), Elem(AGV, "A2", 2, 1, LEFT) >>
                        \o CornerPoints,
     task_records |-> << TaskRec("T1", "S1", "E1", NORMAL), TaskRec("T2", "S2", "E1", NORMAL) >>]

Scenarios ==
    {LineScenario, StarveScenario, CrossScenario, PocketScenario, BlockedScenario,
     FollowScenario}
        \cup CornerScenarios \cup ParkScenarios

(***************************************************************************)
(* Init: AgvContext.__init__ and SchedulerService.__init__, then           *)
(* process_to_complete is entered                                          *)
(***************************************************************************)
InitFrom(elements, task_records) ==
    /\ map_elements = elements
    /\ tasks = context_tasks(elements, task_records)
    /\ agvs = context_agvs(elements)
    /\ fixed_map_obstacles = context_fixed_map_obstacles(elements)
    /\ trajectory_records =
           recorder_add(<<>>, context_agvs(elements), context_tasks(elements, task_records), 0)
    /\ timestamp = 0
    /\ pc = "loop"
    /\ caller = "loop"
    /\ extra_ticks = 0
    /\ handled_agvs = <<>>
    /\ pending_tasks = <<>>
    /\ temp_assignments = <<>>
    /\ batch = batch0
    /\ park = park0

Init ==
    /\ \E sc \in Scenarios : InitFrom(sc.map_elements, sc.task_records)
    /\ plan = plan0
    /\ queue = queue0
    /\ pointex = pointex0

(***************************************************************************)
(* process_to_complete and process                                         *)
(***************************************************************************)
context_vars == <<map_elements, fixed_map_obstacles>>
tick_vars == <<handled_agvs, pending_tasks, temp_assignments, batch, park>>

\* process() is invoked: by the loop of process_to_complete while a task is not
\* completed, or directly once process_to_complete has returned.
Invoked ==
    \/ pc = "loop" /\ ~all_tasks_completed(tasks)
    \/ pc = "returned" /\ extra_ticks < MaxExtraTicks

\* process_to_complete: the loop ends
Return ==
    /\ pc = "loop"
    /\ all_tasks_completed(tasks)
    /\ pc' = "returned"
    /\ UNCHANGED <<context_vars, tick_vars, tasks, agvs, trajectory_records, timestamp,
                   caller, extra_ticks, plan, queue, pointex>>

\* A variant of Raise that counts the tick before it raises.
RaiseAfterCount ==
    /\ Invoked
    /\ timestamp > MAX_TIMESTAMP
    /\ timestamp' = timestamp + 1
    /\ pc' = "raised"
    /\ UNCHANGED <<context_vars, tick_vars, tasks, agvs, trajectory_records,
                   caller, extra_ticks, plan, queue, pointex>>

\* process: the deadlock guard raises
Raise ==
    /\ Invoked
    /\ timestamp > MAX_TIMESTAMP
    /\ pc' = "raised"
    /\ UNCHANGED <<context_vars, tick_vars, tasks, agvs, trajectory_records, timestamp,
                   caller, extra_ticks, plan, queue, pointex>>

\* process: the guard passes and the tick begins
BeginTick ==
    /\ Invoked
    /\ ~(timestamp > MAX_TIMESTAMP)
    /\ timestamp' = timestamp + 1
    /\ handled_agvs' = <<>>
    /\ caller' = IF pc = "loop" THEN "loop" ELSE "direct"
    /\ extra_ticks' = IF pc = "loop" THEN extra_ticks ELSE extra_ticks + 1
    /\ pc' = "unload"
    /\ UNCHANGED <<context_vars, tasks, agvs, trajectory_records, pending_tasks,
                   temp_assignments, batch, park, plan, queue, pointex>>

\* process, phase 1
Unload ==
    /\ pc = "unload"
    /\ LET w == unload_phase(1, [agvs |-> agvs, tasks |-> tasks, handled |-> handled_agvs],
                             timestamp)
       IN  /\ agvs' = w.agvs
           /\ tasks' = w.tasks
           /\ handled_agvs' = w.handled
    /\ pc' = "load"
    /\ UNCHANGED <<context_vars, trajectory_records, timestamp, caller, extra_ticks,
                   pending_tasks, temp_assignments, batch, park, plan, queue, pointex>>

\* process, phase 2, and the call of the batched move of phase 3
Load ==
    /\ pc = "load"
    /\ \E pending_load_tasks \in {get_sorted_pending_tasks(tasks)} :
       \E w \in {load_phase(1, [agvs |-> agvs, tasks |-> tasks, handled |-> handled_agvs],
                             pending_load_tasks, timestamp)} :
           /\ agvs' = w.agvs
           /\ tasks' = w.tasks
           /\ handled_agvs' = w.handled
           /\ batch' = [batch0 EXCEPT
                           !.agvs = SelectSeq2([a \in 1..Len(agvs) |-> a],
                                               {a \in 1..Len(agvs) : w.agvs[a].is_loaded}),
                           !.is_loaded = TRUE]
    /\ pc' = "move_loaded"
    /\ UNCHANGED <<context_vars, trajectory_records, timestamp, caller, extra_ticks,
                   pending_tasks, temp_assignments, park, plan, queue, pointex>>

\* _batch_move_agvs: the loop plans for its next candidate, and the candidate
\* stays, turns out of a cross-lock, or moves
BatchStep ==
    /\ pc \in {"move_loaded", "move_idle"}
    /\ batch_target.j # 0
    /\ \E tg \in {batch_target} :
       \E a \in {batch.agvs[tg.j]} :
       \E task_id \in {IF batch.is_loaded THEN agvs[a].loaded_task
                        ELSE assigned_task(temp_assignments, a)} :
       \E b1 \in {[batch EXCEPT !.i = tg.j + 1,
                                 !.passes = IF tg.new_pass THEN @ + 1 ELSE @,
                                 !.pass_start = IF tg.new_pass THEN Len(handled_agvs) ELSE @,
                                 !.is_assigned = IF tg.new_pass /\ batch.passes # 0
                                                 THEN FALSE ELSE @]} :
       \E a1 \in {[agvs[a] EXCEPT !.path_time_points = batch_replan(a, task_id)]} :
       \E lock \in {cross_lock_check(a1, tasks[task_id], batch.moved_items, agvs, tasks)} :
               IF Len(a1.path_time_points) < 2 \/ next_pitch(a1) # a1.pitch
               THEN /\ agvs' = [agvs EXCEPT ![a] = a1]
                    /\ batch' = b1
                    /\ UNCHANGED handled_agvs
               ELSE IF lock.should_turn
               THEN /\ agvs' = [agvs EXCEPT ![a] =
                                    [turn_to(a1, lock.turn_direction)
                                        EXCEPT !.path_time_points = <<>>]]
                    /\ handled_agvs' = Append(handled_agvs, a)
                    /\ batch' = [b1 EXCEPT !.is_assigned = TRUE]
               ELSE /\ agvs' = [agvs EXCEPT ![a] = move(a1)]
                    /\ handled_agvs' = Append(handled_agvs, a)
                    /\ batch' = [b1 EXCEPT !.is_assigned = TRUE,
                                           !.moved_items = Append(@, [agv |-> a,
                                                                      pos |-> a1.position,
                                                                      task |-> task_id])]
    /\ UNCHANGED <<context_vars, tasks, trajectory_records, timestamp, pc, caller,
                   extra_ticks, pending_tasks, temp_assignments, park, plan, queue, pointex>>

\* process, phase 4, entered when the batched move of the loaded AGVs ends
TurnLoaded ==
    /\ pc = "move_loaded"
    /\ batch_target.j = 0
    /\ LET w == turn_loaded_phase(1, [agvs |-> agvs, tasks |-> tasks, handled |-> handled_agvs])
       IN  /\ agvs' = w.agvs
           /\ handled_agvs' = w.handled
    /\ batch' = batch0
    /\ pc' = "assign"
    /\ UNCHANGED <<context_vars, tasks, trajectory_records, timestamp, caller, extra_ticks,
                   pending_tasks, temp_assignments, park, plan, queue, pointex>>

\* process, phase 5
Assign ==
    /\ pc = "assign"
    /\ \E sorted \in {get_sorted_pending_tasks(tasks)} :
       \E idle_agvs \in {SelectSeq2([a \in 1..Len(agvs) |-> a],
                                    {a \in 1..Len(agvs) :
                                        a \notin Range(handled_agvs) /\ ~agvs[a].is_loaded})} :
       \E r \in {assign_phase(sorted, idle_agvs, agvs, <<>>, tasks, fixed_map_obstacles)} :
               /\ pending_tasks' = sorted
               /\ agvs' = r.agvs
               /\ temp_assignments' = r.assignments
    /\ pc' = "turn_idle"
    /\ UNCHANGED <<context_vars, tasks, trajectory_records, timestamp, caller, extra_ticks,
                   handled_agvs, batch, park, plan, queue, pointex>>

\* process, phase 6: the assigned AGVs that should turn do, and the batched move
\* is called for those that should move
TurnIdle ==
    /\ pc = "turn_idle"
    /\ LET assigned == assigned_agvs(temp_assignments)
           turn_agvs == SelectSeq2(assigned, {a \in Range(assigned) : should_turn(agvs[a])})
           move_agvs == SelectSeq2(assigned, {a \in Range(assigned) : should_move(agvs[a])})
       IN  /\ agvs' = turn_idle_phase(turn_agvs, agvs)
           /\ batch' = [batch0 EXCEPT !.agvs = move_agvs, !.is_loaded = FALSE]
    /\ pc' = "move_idle"
    /\ UNCHANGED <<context_vars, tasks, trajectory_records, timestamp, caller, extra_ticks,
                   handled_agvs, pending_tasks, temp_assignments, park, plan, queue, pointex>>

\* process: the batched move of the idle AGVs ends; the parking loop is entered
\* over the unhandled AGVs when no task is pending
EndMoveIdle ==
    /\ pc = "move_idle"
    /\ batch_target.j = 0
    /\ park' = [agvs |-> IF pending_tasks = <<>>
                         THEN SelectSeq2([a \in 1..Len(agvs) |-> a],
                                         {a \in 1..Len(agvs) : a \notin Range(handled_agvs)})
                         ELSE <<>>,
                i |-> 1]
    /\ batch' = batch0
    /\ pc' = "park"
    /\ UNCHANGED <<context_vars, tasks, agvs, trajectory_records, timestamp, caller,
                   extra_ticks, handled_agvs, pending_tasks, temp_assignments, plan, queue, pointex>>

\* process, phase 7: one AGV of the parking loop
ParkStep ==
    /\ pc = "park"
    /\ park.i <= Len(park.agvs)
    /\ agvs' = [agvs EXCEPT ![park.agvs[park.i]] =
                   park_agv(park.agvs[park.i], agvs, fixed_map_obstacles)]
    /\ park' = [park EXCEPT !.i = @ + 1]
    /\ UNCHANGED <<context_vars, tasks, trajectory_records, timestamp, pc, caller,
                   extra_ticks, handled_agvs, pending_tasks, temp_assignments, batch, plan, queue, pointex>>

\* process: the tick is recorded and process returns
Record ==
    /\ pc = "park"
    /\ park.i > Len(park.agvs)
    /\ trajectory_records' = recorder_add(trajectory_records, agvs, tasks, timestamp)
    /\ handled_agvs' = <<>>
    /\ pending_tasks' = <<>>
    /\ temp_assignments' = <<>>
    /\ park' = park0
    /\ pc' = IF caller = "loop" THEN "loop" ELSE "returned"
    /\ UNCHANGED <<context_vars, tasks, agvs, timestamp, caller, extra_ticks, batch, plan, queue, pointex>>

Next ==
    \/ Return
    \/ Raise
    \/ BeginTick
    \/ Unload
    \/ Load
    \/ BatchStep
    \/ TurnLoaded
    \/ Assign
    \/ TurnIdle
    \/ EndMoveIdle
    \/ ParkStep
    \/ Record

Spec == Init /\ [][Next]_vars

\* The scheduler is one thread that runs on: a step that can be taken is taken.
SpecFair == Spec /\ WF_vars(Next)

(***************************************************************************)
(* The planner on its own: a_star_with_orientation is called once on an    *)
(* input drawn from a bounded grid                                         *)
(***************************************************************************)
PlanW == 3
PlanH == 3

PlanCells == (1..PlanW) \X (1..PlanH)

\* The cells an obstacle may stand on.
PlanObstacleCells == {<<2, 1>>, <<2, 2>>, <<3, 2>>, <<2, 3>>}

\* Scenario 2 of the specification, on the default grid.
PlanExample ==
    [plan0 EXCEPT !.start = <<1, 1>>, !.goal = <<3, 3>>, !.orientation = RIGHT,
                  !.obstacles = {}, !.size = GRID_SIZE]

PlanInit ==
    /\ InitFrom(LineScenario.map_elements, LineScenario.task_records)
    /\ queue = queue0
    /\ pointex = pointex0
    /\ \/ \E start \in PlanCells, goal \in PlanCells, orientation \in Direction,
             obstacles \in SUBSET PlanObstacleCells :
              plan = [plan0 EXCEPT !.start = start, !.goal = goal,
                                   !.orientation = orientation, !.obstacles = obstacles,
                                   !.size = <<PlanW, PlanH>>]
       \/ plan = PlanExample

PlanCall ==
    /\ ~plan.done
    /\ LET r == a_star_entry(plan.start, plan.goal, plan.orientation, plan.obstacles,
                             plan.size)
       IN  plan' = [plan EXCEPT !.done = TRUE, !.path = r.path, !.cost = r.cost]
    /\ UNCHANGED <<context_vars, tick_vars, tasks, agvs, trajectory_records, timestamp,
                   pc, caller, extra_ticks, queue, pointex>>

PlanNext == PlanCall

SpecPlan == PlanInit /\ [][PlanNext]_vars

(***************************************************************************)
(* SimplePriorityQueue on its own: enqueue and dequeue are called in any   *)
(* order on a queue that starts empty.  The heap is the list heapq keeps:  *)
(* position k of the list is element k + 1 of the sequence.                *)
(***************************************************************************)
MaxEnqueues == 4

QueuePriorities == 1..3
QueueItems == {"a", "b"}

\* A variant of tuple_less that compares the priorities only.
tuple_less_priority_only(e1, e2) == e1.priority < e2.priority

\* The order of the heap's tuples (priority, index, item): the index differs
\* between any two entries, so the item is never compared.
tuple_less(e1, e2) ==
    \/ e1.priority < e2.priority
    \/ e1.priority = e2.priority /\ e1.index < e2.index

\* heapq: newitem travels from pos towards startpos while it is less than its parent.
RECURSIVE siftdown(_, _, _, _)
siftdown(heap, startpos, pos, newitem) ==
    IF pos > startpos /\ tuple_less(newitem, heap[((pos - 1) \div 2) + 1])
    THEN siftdown([heap EXCEPT ![pos + 1] = heap[((pos - 1) \div 2) + 1]],
                  startpos, (pos - 1) \div 2, newitem)
    ELSE [heap EXCEPT ![pos + 1] = newitem]

\* heapq: the smaller child is pulled up from pos to a leaf, then newitem is
\* placed there and sifted back towards startpos.
RECURSIVE siftup(_, _, _, _)
siftup(heap, startpos, pos, newitem) ==
    LET childpos == 2 * pos + 1
        rightpos == childpos + 1
        smaller == IF rightpos < Len(heap)
                      /\ ~tuple_less(heap[childpos + 1], heap[rightpos + 1])
                   THEN rightpos ELSE childpos
    IN  IF childpos < Len(heap)
        THEN siftup([heap EXCEPT ![pos + 1] = heap[smaller + 1]], startpos, smaller, newitem)
        ELSE siftdown([heap EXCEPT ![pos + 1] = newitem], startpos, pos, newitem)

heappush(heap, entry) == siftdown(Append(heap, entry), 0, Len(heap), entry)

\* heapq.heappop of a heap that is not empty: the entry popped and the heap left.
heappop(heap) ==
    LET lastelt == heap[Len(heap)]
        rest == SubSeq(heap, 1, Len(heap) - 1)
    IN  IF rest # <<>>
        THEN [entry |-> rest[1], heap |-> siftup([rest EXCEPT ![1] = lastelt], 0, 0, lastelt)]
        ELSE [entry |-> lastelt, heap |-> <<>>]

\* SimplePriorityQueue.count
count(q) == Len(q.heap)

QueueInit ==
    /\ InitFrom(LineScenario.map_elements, LineScenario.task_records)
    /\ plan = plan0
    /\ queue = queue0
    /\ pointex = pointex0

\* SimplePriorityQueue.enqueue(item, priority)
Enqueue ==
    /\ queue.index < MaxEnqueues
    /\ \E item \in QueueItems, priority \in QueuePriorities :
           queue' = [queue EXCEPT
                        !.heap = heappush(@, [priority |-> priority, index |-> queue.index,
                                              item |-> item]),
                        !.index = @ + 1,
                        !.call = "enqueue",
                        !.enqueues = @ + 1,
                        !.returned = <<>>,
                        !.raised = FALSE]
    /\ UNCHANGED <<context_vars, tick_vars, tasks, agvs, trajectory_records, timestamp,
                   pc, caller, extra_ticks, plan, pointex>>

\* SimplePriorityQueue.dequeue()
Dequeue ==
    /\ queue' = IF queue.heap = <<>>
                THEN [queue EXCEPT !.call = "dequeue", !.returned = <<>>, !.raised = TRUE]
                ELSE [queue EXCEPT !.heap = heappop(@).heap,
                                   !.call = "dequeue",
                                   !.dequeues = @ + 1,
                                   !.returned = <<heappop(queue.heap).entry.item>>,
                                   !.raised = FALSE]
    /\ UNCHANGED <<context_vars, tick_vars, tasks, agvs, trajectory_records, timestamp,
                   pc, caller, extra_ticks, plan, pointex>>

QueueNext == Enqueue \/ Dequeue

SpecQueue == QueueInit /\ [][QueueNext]_vars

(***************************************************************************)
(* PointEx on its own: a point, a direction and a nearby point are drawn,  *)
(* and get_neighbour and get_pitch_to_neighbour are called on them, each   *)
(* call taking the outcome of the one before as its argument.              *)
(***************************************************************************)
MaxCoord == 3

PointCells == (1..MaxCoord) \X (1..MaxCoord)

PointDirections == {RIGHT, UP, LEFT, DOWN}

PointInit ==
    /\ InitFrom(LineScenario.map_elements, LineScenario.task_records)
    /\ plan = plan0
    /\ queue = queue0
    /\ \E p \in PointCells, direction \in PointDirections :
           \E neighbour \in Range(neighbours(p)) \cup {p} :
               pointex = [p |-> p, direction |-> direction, neighbour |-> neighbour,
                          call |-> "none", raised |-> FALSE]

\* PointEx.get_neighbour(direction)
GetNeighbour ==
    /\ pointex' = [pointex EXCEPT !.neighbour = get_neighbour(pointex.p, pointex.direction),
                                  !.call = "get_neighbour",
                                  !.raised = FALSE]
    /\ UNCHANGED <<context_vars, tick_vars, tasks, agvs, trajectory_records, timestamp,
                   pc, caller, extra_ticks, plan, queue>>

\* PointEx.get_pitch_to_neighbour(neighbour_point)
GetPitchToNeighbour ==
    /\ pointex' = IF get_pitch_to_neighbour(pointex.p, pointex.neighbour) = PITCH_ERROR
                  THEN [pointex EXCEPT !.call = "get_pitch_to_neighbour", !.raised = TRUE]
                  ELSE [pointex EXCEPT
                           !.direction = get_pitch_to_neighbour(pointex.p, pointex.neighbour),
                           !.call = "get_pitch_to_neighbour",
                           !.raised = FALSE]
    /\ UNCHANGED <<context_vars, tick_vars, tasks, agvs, trajectory_records, timestamp,
                   pc, caller, extra_ticks, plan, queue>>

PointNext == GetNeighbour \/ GetPitchToNeighbour

SpecPoint == PointInit /\ [][PointNext]_vars

(***************************************************************************)
(* The task order on its own: get_sorted_pending_tasks is called once, as  *)
(* the assign phase calls it, on a task list drawn from bounded lists over *)
(* three start points, one of them on the middle row; the first task of    *)
(* the list may have been loaded before.                                   *)
(***************************************************************************)
MaxSortTasks == 5

SortMap ==
    << Elem(AGV, "A1", 5, 5, RIGHT), Elem(START_POINT, "S1", 1, 3, None),
       Elem(START_POINT, "S2", 1, 5, None), Elem(START_POINT, "S3", 1, MIDDLE_Y, None),
       Elem(END_POINT, "E1", 8, 1, None) >>

SortTaskNames == <<"T1", "T2", "T3", "T4", "T5", "T6", "T7", "T8">>

\* The task files of n records and fewer.
RECURSIVE SortTaskFiles(_)
SortTaskFiles(n) ==
    IF n = 0 THEN {<<>>}
    ELSE LET shorter == SortTaskFiles(n - 1)
         IN  shorter \cup
             {Append(l, TaskRec(SortTaskNames[n], sp, "E1", pr)) :
                 l \in {l \in shorter : Len(l) = n - 1},
                 sp \in {"S1", "S2", "S3"}, pr \in {NORMAL, HIGH}}

SortInit ==
    /\ map_elements = SortMap
    /\ agvs = context_agvs(SortMap)
    /\ fixed_map_obstacles = context_fixed_map_obstacles(SortMap)
    /\ trajectory_records = <<>>
    /\ timestamp = 1
    /\ pc = "sort"
    /\ caller = "direct"
    /\ extra_ticks = 0
    /\ handled_agvs = <<>>
    /\ pending_tasks = <<>>
    /\ temp_assignments = <<>>
    /\ batch = batch0
    /\ park = park0
    /\ plan = plan0
    /\ queue = queue0
    /\ pointex = pointex0
    /\ \E task_records \in SortTaskFiles(MaxSortTasks) :
       \E ts \in {context_tasks(SortMap, task_records)} :
       \E loaded \in {0, 1} \cap (0..Len(ts)) :
           tasks = [k \in 1..Len(ts) |-> IF k = loaded THEN load_by(ts[k], 1, 1) ELSE ts[k]]

\* pending_tasks = self.context.get_sorted_pending_tasks()
SortCall ==
    /\ pc = "sort"
    /\ pending_tasks' = get_sorted_pending_tasks(tasks)
    /\ pc' = "sorted"
    /\ UNCHANGED <<context_vars, tasks, agvs, trajectory_records, timestamp, caller,
                   extra_ticks, handled_agvs, temp_assignments, batch, park, plan, queue, pointex>>

SortNext == SortCall

SpecSort == SortInit /\ [][SortNext]_vars

(***************************************************************************)
(* Properties                                                              *)
(***************************************************************************)
AgvIds == 1..Len(agvs)
TaskIds == 1..Len(tasks)

\* The AGV elements of the map file, in file order: AGV a is built from the a-th.
start_agvs == SelectSeq(map_elements, LAMBDA e : e.type = AGV)

\* The context was built with its AGVs on pairwise distinct cells.
DistinctStart ==
    \A a, b \in 1..Len(start_agvs) :
        a # b => <<start_agvs[a].x, start_agvs[a].y>> # <<start_agvs[b].x, start_agvs[b].y>>

\* The context was built with no AGV on a fixed obstacle.
NoStartOnObstacle ==
    \A a \in 1..Len(start_agvs) :
        <<start_agvs[a].x, start_agvs[a].y>> \notin Range(fixed_map_obstacles)

\* process() is not running: the context was just built, or a tick is over.
TickBoundary == pc \in {"loop", "returned", "raised"}

\* C1: from pairwise distinct start cells, no two AGVs ever share a cell, in any
\* state of a tick: after each move of a batched move and of the parking phase.
C1_NoSharedCell ==
    DistinctStart =>
        \A a, b \in AgvIds : a # b => agvs[a].position # agvs[b].position

\* An AGV has moved in the running batched move and stands next to another AGV.
C1_Witness ==
    /\ DistinctStart
    /\ \E k \in 1..Len(batch.moved_items) : \E b \in AgvIds :
           /\ b # batch.moved_items[k].agv
           /\ is_neighbour(agvs[batch.moved_items[k].agv].position, agvs[b].position)

\* is_loaded holds exactly when loaded_task is set, and a loaded AGV's task
\* points back to it and is not completed.
LoadConsistent ==
    \A a \in AgvIds :
        /\ agvs[a].is_loaded <=> agvs[a].loaded_task # None
        /\ agvs[a].is_loaded =>
               /\ tasks[agvs[a].loaded_task].agv = a
               /\ ~tasks[agvs[a].loaded_task].is_completed

\* C2 as claimed: in every reachable state is_loaded holds exactly when
\* loaded_task is set, and a loaded AGV's task points back to it and is not
\* completed.
C2_Original == LoadConsistent

\* C2 as amended: the same, in every state reachable from a context whose
\* AGVs start on pairwise distinct cells.
C2_LoadConsistent == DistinctStart => LoadConsistent

\* An AGV carries a task.
C2_Witness == DistinctStart /\ \E a \in AgvIds : agvs[a].is_loaded

\* C3: if no AGV starts on a fixed obstacle, no AGV is ever on one; a loaded AGV
\* whose planned next cell is its task's end position unloads instead of
\* stepping there.
C3_OffObstacles ==
    NoStartOnObstacle =>
        \A a \in AgvIds : agvs[a].position \notin Range(fixed_map_obstacles)

\* A loaded AGV stands next to its end position with that cell next on its path.
C3_Witness ==
    /\ NoStartOnObstacle
    /\ \E a \in AgvIds :
           /\ agvs[a].is_loaded
           /\ Len(agvs[a].path_time_points) = 2
           /\ agvs[a].path_time_points[2].position = tasks[agvs[a].loaded_task].end_position

\* One step in the life of the tasks.
C4_Step ==
    \A k \in TaskIds :
        /\ ~is_pending(tasks[k]) => ~is_pending(tasks'[k])
        /\ tasks[k].is_completed => tasks'[k].is_completed
        /\ (~tasks[k].is_completed /\ tasks'[k].is_completed) => is_running(tasks[k])
        /\ tasks'[k].is_completed => k \notin Range(get_sorted_pending_tasks(tasks'))

\* C4: a task only moves forward through pending, running, completed: a loaded
\* task is never pending again, a completed one stays completed, a task is
\* completed only from running, and a completed task is not in the sorted
\* pending list.
C4_Lifecycle == [][C4_Step]_vars

\* A task is completed.
C4_Witness == \E k \in TaskIds : tasks[k].is_completed

\* The rows at a tick boundary.
C5_Rows ==
    TickBoundary =>
        /\ Len(trajectory_records) = Len(agvs) * (timestamp + 1)
        /\ \A r \in 1..Len(trajectory_records) :
               /\ trajectory_records[r].timestamp = (r - 1) \div Len(agvs)
               /\ trajectory_records[r].name = agvs[((r - 1) % Len(agvs)) + 1].name
        /\ \A a \in AgvIds :
               trajectory_records[Len(agvs) * timestamp + a] = record_of(agvs[a], tasks, timestamp)

\* One step of the recorder.
C5_Append ==
    /\ Len(trajectory_records') >= Len(trajectory_records)
    /\ SubSeq(trajectory_records', 1, Len(trajectory_records)) = trajectory_records
    /\ pc' = "raised" => trajectory_records' = trajectory_records

\* C5: at every tick boundary with timestamp t the recorder holds |AGVs| * (t + 1)
\* rows, row by row the AGVs in list order for the timestamps 0..t, the last
\* |AGVs| rows being the AGVs as they are; rows are only ever appended, and the
\* raising call appends none.
C5_Recorder == [](C5_Rows) /\ [][C5_Append]_vars

\* Two AGVs have been recorded over three ticks and more.
C5_Witness == TickBoundary /\ timestamp >= 3 /\ Len(agvs) = 2

\* Every task is completed.
AllDone == \A k \in TaskIds : tasks[k].is_completed

\* At the loop test with every task completed, the step is the return.
C6_LoopExit ==
    (pc = "loop" /\ AllDone) => (pc' = "returned" /\ timestamp' = timestamp)

\* C6: process_to_complete ends, by returning or by the deadlock error; it has
\* returned only with every task completed, the timestamp never passes the
\* bound the guard sets, and with every task completed the loop runs no tick
\* but returns.
C6_Terminates ==
    /\ <>(pc \in {"returned", "raised"})
    /\ [](pc = "returned" => AllDone)
    /\ [](timestamp <= MAX_TIMESTAMP + 1)
    /\ [][C6_LoopExit]_vars

\* process_to_complete has returned after running ticks.
C6_Witness == pc = "returned" /\ caller = "loop" /\ timestamp > 0 /\ AllDone

\* The context is scenario 1 of the specification.
IsLine == map_elements = LineScenario.map_elements /\ Len(tasks) = 1

\* C7 as claimed: the timestamp and every recorded timestamp stay within 400,
\* and the deadlock error is raised on the attempt to execute tick 401.
C7_Original ==
    /\ timestamp <= MAX_TIMESTAMP
    /\ \A r \in 1..Len(trajectory_records) : trajectory_records[r].timestamp <= MAX_TIMESTAMP
    /\ pc = "raised" => timestamp = MAX_TIMESTAMP

sorted_place(k) ==
    LET sorted == get_sorted_pending_tasks(tasks)
    IN  CHOOSE i \in 1..Len(sorted) : sorted[i] = k

\* The number of pending tasks of k's start point before k in file order.
file_index(k) ==
    Cardinality({j \in TaskIds : /\ j < k
                                 /\ is_pending(tasks[j])
                                 /\ tasks[j].start_point = tasks[k].start_point})

PendingIds == {k \in TaskIds : is_pending(tasks[k])}

\* C9 as claimed: of two pending tasks of one start point, a High second task
\* is sorted before a Normal first task.
C9_Original ==
    \A j, k \in PendingIds :
        (/\ j < k
         /\ tasks[j].start_point = tasks[k].start_point
         /\ tasks[j].priority = NORMAL
         /\ tasks[k].priority = HIGH) => sorted_place(k) < sorted_place(j)

\* C9 as amended: two pending tasks of one start point are sorted in file order
\* whatever their priorities, so the Normal first task precedes the High
\* second one; High precedes Normal among tasks of equal index in their
\* groups; and the assign phase takes the tasks in the sorted order.
C9_FileOrderFirst ==
    /\ \A j, k \in PendingIds :
           /\ (j < k /\ tasks[j].start_point = tasks[k].start_point)
                  => sorted_place(j) < sorted_place(k)
           /\ (/\ file_index(j) = file_index(k)
               /\ tasks[j].priority = HIGH
               /\ tasks[k].priority = NORMAL) => sorted_place(j) < sorted_place(k)
    /\ pc = "turn_idle" =>
           /\ pending_tasks = get_sorted_pending_tasks(tasks)
           /\ \A i \in 1..Len(temp_assignments) : temp_assignments[i][2] = pending_tasks[i]

\* The assign phase has given the Normal first task of a start point to an AGV
\* before its High second task.
C9_Witness ==
    /\ pc = "turn_idle"
    /\ Len(temp_assignments) = 2
    /\ temp_assignments[1][2] < temp_assignments[2][2]
    /\ tasks[temp_assignments[1][2]].start_point = tasks[temp_assignments[2][2]].start_point
    /\ tasks[temp_assignments[1][2]].priority = NORMAL
    /\ tasks[temp_assignments[2][2]].priority = HIGH

(***************************************************************************)
(* The least cost of a path, for C10: the states (cell, orientation) are   *)
(* reached level by level of cost; a step costs 1 when it keeps the        *)
(* orientation and 2 when it changes it; -1 when the goal is not reached.   *)
(***************************************************************************)
ref_cells(p, obstacles, size) ==
    {q \in {<<p[1] + 1, p[2]>>, <<p[1] - 1, p[2]>>, <<p[1], p[2] + 1>>, <<p[1], p[2] - 1>>} :
        /\ q[1] \in 1..size[1]
        /\ q[2] \in 1..size[2]
        /\ q \notin obstacles}

\* The states one step from a state of S, the step keeping (turning = FALSE) or
\* changing (turning = TRUE) the orientation.
ref_steps(S, turning, obstacles, size) ==
    UNION {{<<q, get_pitch_to_neighbour(st[1], q)>> :
               q \in {q \in ref_cells(st[1], obstacles, size) :
                         (get_pitch_to_neighbour(st[1], q) # st[2]) = turning}} : st \in S}

RECURSIVE ref_search(_, _, _, _, _, _, _)
ref_search(c, prev1, prev2, seen, goal, obstacles, size) ==
    LET level == (ref_steps(prev1, FALSE, obstacles, size)
                  \cup ref_steps(prev2, TRUE, obstacles, size)) \ seen
    IN  IF \E st \in level : st[1] = goal THEN c
        ELSE IF level = {} /\ prev1 = {} THEN -1
        ELSE ref_search(c + 1, level, prev1, seen \cup level, goal, obstacles, size)

ref_min_cost(start, goal, orientation, obstacles, size) ==
    IF start = goal THEN 0
    ELSE ref_search(1, {<<start, orientation>>}, {}, {<<start, orientation>>},
                    goal, obstacles, size)

\* The cost of a path for an AGV starting with an orientation: the time of its
\* last point.
path_cost(path, orientation) ==
    calculate_path_timing(path, orientation)[Len(path)].time_cost

\* C10: a path the planner returns has the least cost of all paths from start
\* to goal, which is also the cost g the planner found; in scenario 2 the path
\* has 5 cells and cost 5.
C10_Optimal ==
    (plan.done /\ plan.path # <<>>) =>
        /\ path_cost(plan.path, plan.orientation)
               = ref_min_cost(plan.start, plan.goal, plan.orientation, plan.obstacles, plan.size)
        /\ path_cost(plan.path, plan.orientation) = plan.cost
        /\ (/\ plan.start = <<1, 1>> /\ plan.goal = <<3, 3>>
            /\ plan.orientation = RIGHT /\ plan.obstacles = {})
               => (Len(plan.path) = 5 /\ plan.cost = 5)

\* The planner has returned a path around an obstacle that takes two turns.
C10_Witness ==
    /\ plan.done
    /\ plan.obstacles # {}
    /\ plan.path # <<>>
    /\ plan.cost >= Len(plan.path) - 1 + 2

(***************************************************************************)
(* The cells within reach, for C11: the closure of the start cell under    *)
(* steps to in-bounds cells that are not obstacles.                        *)
(***************************************************************************)
RECURSIVE ref_reach(_, _, _)
ref_reach(S, obstacles, size) ==
    LET T == S \cup UNION {ref_cells(p, obstacles, size) : p \in S}
    IN  IF T = S THEN S ELSE ref_reach(T, obstacles, size)

ref_reachable(start, goal, obstacles, size) == goal \in ref_reach({start}, obstacles, size)

\* A path from start to goal: 4-adjacent cells, each after the first in bounds
\* and not an obstacle.
well_formed(path, start, goal, obstacles, size) ==
    /\ path[1] = start
    /\ path[Len(path)] = goal
    /\ \A i \in 2..Len(path) :
           /\ is_neighbour(path[i - 1], path[i])
           /\ path[i][1] \in 1..size[1]
           /\ path[i][2] \in 1..size[2]
           /\ path[i] \notin obstacles

\* C11: the planner returns a non-empty path exactly when the goal is within
\* reach of the start through in-bounds cells that are not obstacles; a returned
\* path begins at start, ends at goal, steps between 4-adjacent cells and enters
\* only in-bounds cells that are not obstacles; with start = goal it is the
\* single cell start, of cost 0.
C11_PathContract ==
    plan.done =>
        /\ (plan.path # <<>>)
               <=> ref_reachable(plan.start, plan.goal, plan.obstacles, plan.size)
        /\ plan.path # <<>>
               => well_formed(plan.path, plan.start, plan.goal, plan.obstacles, plan.size)
        /\ plan.start = plan.goal => (plan.path = <<plan.start>> /\ plan.cost = 0)

\* The planner has returned the empty path for a goal that is free and in
\* bounds but walled off from the start.
C11_Witness ==
    /\ plan.done
    /\ plan.path = <<>>
    /\ plan.start # plan.goal
    /\ plan.goal \notin plan.obstacles
    /\ plan.start \notin plan.obstacles

\* C12 as claimed: for every start, a call with the goal in the obstacle set
\* returns the empty path.
C12_Original == (plan.done /\ plan.goal \in plan.obstacles) => plan.path = <<>>

\* C12 as amended: a call with the goal in the obstacle set returns the empty
\* path when the start is another cell, and the single cell start when the
\* start is the goal.
C12_GoalObstacle ==
    (plan.done /\ plan.goal \in plan.obstacles) =>
        plan.path = (IF plan.start = plan.goal THEN <<plan.start>> ELSE <<>>)

\* The planner has returned for a goal that is an obstacle next to the start.
C12_Witness ==
    /\ plan.done
    /\ plan.goal \in plan.obstacles
    /\ is_neighbour(plan.start, plan.goal)
    /\ plan.path = <<>>

\* The places in the sorted pending list of the tasks to pick up on a cell.
pickup_places(position) ==
    LET sorted == get_sorted_pending_tasks(tasks)
    IN  {i \in 1..Len(sorted) : tasks[sorted[i]].pickup_position = position}

\* The load phase of a tick: an AGV that is empty, has not unloaded in this tick
\* and stands on the pickup position of a pending task loads the first such task
\* of the sorted pending list, stamped with the tick; any other AGV is left as it
\* is; and every task that stops being pending was loaded so.  Any other step
\* leaves the AGV and the start timestamp of every task alone.
C13_LoadStep ==
    IF pc = "load"
    THEN /\ \A a \in AgvIds :
                IF /\ ~agvs[a].is_loaded
                   /\ a \notin Range(handled_agvs)
                   /\ pickup_places(agvs[a].position) # {}
                THEN LET k == get_sorted_pending_tasks(tasks)[
                                  SetMin(pickup_places(agvs[a].position))]
                     IN  /\ agvs'[a].is_loaded
                         /\ agvs'[a].loaded_task = k
                         /\ agvs'[a].position = agvs[a].position
                         /\ a \in Range(handled_agvs')
                         /\ ~is_pending(tasks'[k])
                         /\ tasks'[k].start_timestamp = timestamp
                         /\ DistinctStart => tasks'[k].agv = a
                ELSE agvs'[a] = agvs[a]
         /\ \A k \in TaskIds :
                IF is_pending(tasks[k]) /\ ~is_pending(tasks'[k])
                THEN \E a \in AgvIds : ~agvs[a].is_loaded /\ agvs'[a].loaded_task = k
                ELSE tasks'[k] = tasks[k]
    ELSE \A k \in TaskIds :
             /\ tasks'[k].agv = tasks[k].agv
             /\ tasks'[k].start_timestamp = tasks[k].start_timestamp

\* The AGVs built on the pickup position of a task carry a task loaded in tick 1
\* when tick 1 is over.
C13_FirstTick ==
    (pc = "loop" /\ timestamp = 1) =>
        \A a \in AgvIds :
            (\E k \in TaskIds :
                 tasks[k].pickup_position = <<start_agvs[a].x, start_agvs[a].y>>)
                => /\ agvs[a].is_loaded
                   /\ tasks[agvs[a].loaded_task].start_timestamp = 1
                   /\ tasks[agvs[a].loaded_task].pickup_position
                          = <<start_agvs[a].x, start_agvs[a].y>>

\* C13: in every tick each empty AGV that has not unloaded in this tick and
\* stands on the pickup position of a pending task loads one task, the first
\* such task of the compound-sorted order, with the tick as its start
\* timestamp; a task becomes running in no other way; and an AGV that starts
\* on the pickup position of a pending task is loaded at the end of tick 1.
C13_LoadRule == [][C13_LoadStep]_vars /\ [](C13_FirstTick)

\* An AGV carries the sorted-first of two tasks that were pending on its cell,
\* loaded in a tick later than the first; the other task is still pending.
C13_Witness ==
    /\ DistinctStart
    /\ \E a \in AgvIds : \E j, k \in TaskIds :
           /\ j # k
           /\ agvs[a].is_loaded /\ agvs[a].loaded_task = j
           /\ tasks[j].agv = a
           /\ tasks[j].start_timestamp > 1
           /\ tasks[k].pickup_position = tasks[j].pickup_position
           /\ is_pending(tasks[k])

\* The rank of pending task k as C14 words it: its index among the pending
\* tasks of its start point, High before Normal, a group with a High task
\* before one without, the larger group before the smaller, a pickup position
\* off the middle row before one on it.
c14_rank(k) ==
    LET group == {j \in PendingIds : tasks[j].start_point = tasks[k].start_point}
    IN  << file_index(k),
           IF tasks[k].priority = HIGH THEN 0 ELSE 1,
           IF \E j \in group : tasks[j].priority = HIGH THEN 0 ELSE 1,
           0 - Cardinality(group),
           IF tasks[k].pickup_position[2] # 10 THEN 0 ELSE 1 >>

\* Lexicographic order of two ranks.
rank_before(u, v) ==
    \E i \in 1..Len(u) : u[i] < v[i] /\ \A j \in 1..(i - 1) : u[j] = v[j]

\* The list the call returned.
C14_Sorted ==
    pc = "sorted" =>
        LET rank == [k \in PendingIds |-> c14_rank(k)]
        IN  /\ Range(pending_tasks) = PendingIds
            /\ Len(pending_tasks) = Cardinality(PendingIds)
            /\ \A i, j \in 1..Len(pending_tasks) :
                   i < j =>
                       \/ rank_before(rank[pending_tasks[i]], rank[pending_tasks[j]])
                       \/ /\ rank[pending_tasks[i]] = rank[pending_tasks[j]]
                          /\ pending_tasks[i] < pending_tasks[j]

\* C14: get_sorted_pending_tasks returns the tasks never loaded, each once,
\* in ascending lexicographic order of (index in the start point's pending
\* group, High before Normal, group with a High task first, larger group
\* first, pickup y other than 10 first), tasks of equal rank in task-list
\* order; and the call changes no task.
C14_SortContract == [](C14_Sorted) /\ [][tasks' = tasks]_vars

\* The call has returned a list in which a task of a smaller group that holds
\* a High task precedes a task of a larger group without one (the two of equal
\* index and priority).
C14_Witness ==
    /\ pc = "sorted"
    /\ \E i, j \in 1..Len(pending_tasks) :
           /\ i < j
           /\ c14_rank(pending_tasks[i])[1] = c14_rank(pending_tasks[j])[1]
           /\ c14_rank(pending_tasks[i])[2] = c14_rank(pending_tasks[j])[2]
           /\ c14_rank(pending_tasks[i])[3] < c14_rank(pending_tasks[j])[3]
           /\ c14_rank(pending_tasks[i])[4] > c14_rank(pending_tasks[j])[4]

\* The edge lines of the parking phase and the edge cells of a cell's row and
\* column.
on_edge_line(p) ==
    p[1] \in {PARK_EDGE_MIN, PARK_EDGE_MAX} \/ p[2] \in {PARK_EDGE_MIN, PARK_EDGE_MAX}

edge_cells(p) ==
    {<<p[1], PARK_EDGE_MAX>>, <<p[1], PARK_EDGE_MIN>>,
     <<PARK_EDGE_MAX, p[2]>>, <<PARK_EDGE_MIN, p[2]>>}

nearest_edge_cells(p) ==
    {g \in edge_cells(p) : \A h \in edge_cells(p) : manhattan(p, g) <= manhattan(p, h)}

\* A step as C15 claims it, once every task is completed: an AGV on an edge
\* line stays on the edge lines, and an AGV off them changes only by a move
\* that brings it nearer to a nearest edge cell or by a turn to face one.
C15_OriginalStep ==
    AllDone =>
        \A a \in AgvIds :
            LET p == agvs[a].position
                q == agvs'[a].position
            IN  IF on_edge_line(p) THEN on_edge_line(q)
                ELSE (q # p \/ agvs'[a].pitch # agvs[a].pitch) =>
                         \E g \in nearest_edge_cells(p) :
                             IF q # p
                             THEN /\ is_neighbour(p, q)
                                  /\ agvs'[a].pitch = agvs[a].pitch
                                  /\ manhattan(q, g) < manhattan(p, g)
                             ELSE agvs'[a].pitch = get_pitch_to_neighbour(p, g)

\* C15 as claimed: once all tasks are completed, an AGV off the edge lines
\* only moves or turns toward its nearest edge, and an AGV on an edge line
\* never leaves the edge lines.
C15_Original == [][C15_OriginalStep]_vars

\* A step as the parking phase takes it, once every task is completed: an AGV on
\* an edge line neither moves nor turns, and an AGV off them changes only by
\* one step of a cheapest path to a nearest edge cell around the fixed obstacles
\* and the obstacles of its neighbourhood: a move to the free cell it faces or
\* a turn in place, either taking one off the cost left to that cell.
C15_ParkingStep ==
    (AllDone /\ DistinctStart) =>
        \A a \in AgvIds :
            LET p == agvs[a].position
                q == agvs'[a].position
                obstacles == Range(fixed_map_obstacles)
                             \cup Range(get_obstacles(a, agvs, fixed_map_obstacles))
            IN  IF on_edge_line(p) THEN q = p /\ agvs'[a].pitch = agvs[a].pitch
                ELSE (q # p \/ agvs'[a].pitch # agvs[a].pitch) =>
                         /\ pc = "park"
                         /\ q # p => /\ agvs'[a].pitch = agvs[a].pitch
                                     /\ is_neighbour(p, q)
                                     /\ get_pitch_to_neighbour(p, q) = agvs[a].pitch
                                     /\ q \notin obstacles
                         /\ \E g \in nearest_edge_cells(p) :
                                ref_min_cost(q, g, agvs'[a].pitch, obstacles, GRID_SIZE)
                                    = ref_min_cost(p, g, agvs[a].pitch, obstacles, GRID_SIZE) - 1

\* C15 as amended: once all tasks are completed, from pairwise distinct start
\* cells, an AGV on an edge line stays where it is, and an AGV off the edge
\* lines only takes steps of a cheapest obstacle-avoiding path to its nearest
\* edge cell, which lead sideways when another AGV stands in the straight way.
C15_Parking == [][C15_ParkingStep]_vars

\* With every task completed, an AGV stands on an edge line it has moved to and
\* another has stepped sideways, off its column, around an AGV in its way.
C15_Witness ==
    /\ AllDone /\ DistinctStart
    /\ caller = "direct"
    /\ \E a \in AgvIds :
           /\ on_edge_line(agvs[a].position)
           /\ agvs[a].position # <<start_agvs[a].x, start_agvs[a].y>>
    /\ \E a \in AgvIds :
           /\ ~on_edge_line(<<start_agvs[a].x, start_agvs[a].y>>)
           /\ agvs[a].position[1] # start_agvs[a].x
           /\ agvs[a].position[2] = start_agvs[a].y
           /\ nearest_edge_cells(<<start_agvs[a].x, start_agvs[a].y>>)
                  = {<<start_agvs[a].x, PARK_EDGE_MIN>>}

\* C16 as claimed: the assign phase enters no AGV in the assignment table for a
\* task to whose pickup position every idle AGV's planned path is empty; the
\* AGV chosen for a task has the least time of its candidates, so every AGV in
\* the table has a path.
C16_Original ==
    pc = "turn_idle" =>
        \A i \in 1..Len(temp_assignments) :
            agvs[temp_assignments[i][1]].path_time_points # <<>>

\* The AGVs of a list are in the order of the context's AGV list.
declared_order(as) == \A i, j \in 1..Len(as) : i < j => as[i] < as[j]

\* The place of an assigned AGV in the assignment table.
assignment_place(a) == CHOOSE k \in 1..Len(temp_assignments) : temp_assignments[k][1] = a

\* The AGVs of a list are assigned ones, in the order of their assignment.
assignment_order(as) ==
    /\ \A i \in 1..Len(as) : \E k \in 1..Len(temp_assignments) : temp_assignments[k][1] = as[i]
    /\ \A i, j \in 1..Len(as) : i < j => assignment_place(as[i]) < assignment_place(as[j])

\* C17 as claimed: in every phase the AGVs are visited in the order of the AGV
\* list: the AGVs the idle turn and move phase visits (the assigned ones), the
\* candidates of both batched moves and the AGVs of the parking loop.
C17_Original ==
    /\ pc = "turn_idle" =>
           declared_order([k \in 1..Len(temp_assignments) |-> temp_assignments[k][1]])
    /\ pc \in {"move_loaded", "move_idle"} => declared_order(batch.agvs)
    /\ pc = "park" => declared_order(park.agvs)

\* C17 as amended: the batched move of the loaded AGVs and the parking loop
\* visit the AGVs in the order of the AGV list; the idle turn and move phase
\* visits the assigned AGVs in the order of their assignment, which is the
\* sorted order of the tasks they were assigned, whatever their places in the
\* AGV list.
C17_VisitOrder ==
    /\ pc = "move_loaded" => declared_order(batch.agvs)
    /\ pc = "park" => declared_order(park.agvs)
    /\ pc \in {"turn_idle", "move_idle"} =>
           \A i \in 1..Len(temp_assignments) : temp_assignments[i][2] = pending_tasks[i]
    /\ pc = "move_idle" =>
           assignment_order(batch.agvs)

\* The batched move of the idle AGVs has moved the second AGV of the list and
\* then the first one, as their tasks were assigned.
C17_Witness ==
    /\ pc = "move_idle"
    /\ Len(batch.agvs) = 2
    /\ ~declared_order(batch.agvs)
    /\ Len(batch.moved_items) = 2
    /\ batch.moved_items[1].agv > batch.moved_items[2].agv

\* The cells of the start and end points of the map, and the ring one cell
\* outside the bounding box of all its elements.
point_cells ==
    {<<map_elements[k].x, map_elements[k].y>> :
        k \in {k \in 1..Len(map_elements) : map_elements[k].type \in {START_POINT, END_POINT}}}

ring_cells ==
    LET xs == {map_elements[k].x : k \in 1..Len(map_elements)}
        ys == {map_elements[k].y : k \in 1..Len(map_elements)}
        west == SetMin(xs) - 1
        east == SetMax(xs) + 1
        south == SetMin(ys) - 1
        north == SetMax(ys) + 1
    IN  {c \in (west..east) \X (south..north) :
            c[1] \in {west, east} \/ c[2] \in {south, north}}

\* The fixed obstacles are the point cells and the ring, and every planned path
\* keeps off them after its first cell, but for the last cell of a loaded AGV's
\* path, which may be the end position of its own task.
C18_Blocking ==
    /\ Range(fixed_map_obstacles) = point_cells \cup ring_cells
    /\ \A a \in AgvIds : \A i \in 2..Len(agvs[a].path_time_points) :
           agvs[a].path_time_points[i].position \in Range(fixed_map_obstacles)
               => /\ agvs[a].is_loaded
                  /\ i = Len(agvs[a].path_time_points)
                  /\ agvs[a].path_time_points[i].position
                         = tasks[agvs[a].loaded_task].end_position

\* C18: the context's fixed obstacles (the start and end point cells and the
\* ring around the bounding box) are the same list before and after every
\* step, hence every tick; planning a delivery takes the end position off a
\* copy only, so the cell keeps blocking every other plan.
C18_FixedObstacles ==
    [](C18_Blocking) /\ [][fixed_map_obstacles' = fixed_map_obstacles]_vars

\* A loaded AGV has a delivery path of three cells or more that ends on its
\* task's end position, a fixed obstacle, while another AGV has a path too.
C18_Witness ==
    \E a, b \in AgvIds :
        /\ a # b
        /\ agvs[a].is_loaded
        /\ Len(agvs[a].path_time_points) >= 3
        /\ agvs[a].path_time_points[Len(agvs[a].path_time_points)].position
               = tasks[agvs[a].loaded_task].end_position
        /\ tasks[agvs[a].loaded_task].end_position \in Range(fixed_map_obstacles)
        /\ ~agvs[b].is_loaded
        /\ Len(agvs[b].path_time_points) >= 2

\* The cell ahead of a cell in a direction.
cell_ahead(p, o) ==
    IF o = RIGHT THEN <<p[1] + 1, p[2]>>
    ELSE IF o = LEFT THEN <<p[1] - 1, p[2]>>
    ELSE IF o = UP THEN <<p[1], p[2] + 1>>
    ELSE <<p[1], p[2] - 1>>

\* The end position of the task candidate a of the running batched move works
\* for: the task it carries, or the task it is assigned.
batch_end_position(a) ==
    IF batch.is_loaded THEN tasks[agvs[a].loaded_task].end_position
    ELSE tasks[temp_assignments[assignment_place(a)][2]].end_position

\* The moved items that cross-lock candidate a: the AGV of the item faces as a
\* does and left the cell beside a (above or below for a horizontal
\* orientation, left or right for a vertical one), a's end position lies
\* beyond a on that side and the item's end position does not lie beyond the
\* cell the item left.
lock_items(a) ==
    LET p == agvs[a].position
        o == agvs[a].pitch
        e == batch_end_position(a)
    IN  {k \in 1..Len(batch.moved_items) :
            LET item == batch.moved_items[k]
                from == item.pos
                f == tasks[item.task].end_position
            IN  /\ agvs[item.agv].pitch = o
                /\ \/ /\ o \in {LEFT, RIGHT}
                      /\ from[1] = p[1]
                      /\ \/ from[2] = p[2] + 1 /\ e[2] > p[2] /\ f[2] <= from[2]
                         \/ from[2] = p[2] - 1 /\ e[2] < p[2] /\ f[2] >= from[2]
                   \/ /\ o \in {UP, DOWN}
                      /\ from[2] = p[2]
                      /\ \/ from[1] = p[1] - 1 /\ e[1] < p[1] /\ f[1] >= from[1]
                         \/ from[1] = p[1] + 1 /\ e[1] > p[1] /\ f[1] <= from[1]}

\* A step of a batched move that handles a candidate: with a cross-locking
\* moved item the candidate stays, faces the cell that item left, loses its
\* path and is handled; with none it keeps its orientation and moves to the
\* cell ahead.
C19_Step ==
    (pc \in {"move_loaded", "move_idle"} /\ pc' = pc /\ handled_agvs' # handled_agvs) =>
        LET a == handled_agvs'[Len(handled_agvs')]
        IN  /\ handled_agvs' = Append(handled_agvs, a)
            /\ IF lock_items(a) # {}
               THEN /\ agvs'[a].position = agvs[a].position
                    /\ agvs'[a].path_time_points = <<>>
                    /\ \E k \in lock_items(a) :
                           agvs'[a].pitch = get_pitch_to_neighbour(agvs[a].position,
                                                                   batch.moved_items[k].pos)
                    /\ batch'.moved_items = batch.moved_items
               ELSE /\ agvs'[a].pitch = agvs[a].pitch
                    /\ agvs'[a].position = cell_ahead(agvs[a].position, agvs[a].pitch)
                    /\ Len(batch'.moved_items) = Len(batch.moved_items) + 1

\* C19: in a batched move a candidate about to step forward that finds a moved
\* AGV of its orientation whose pre-move cell is its perpendicular neighbour,
\* the end positions lying as the rule requires, does not move: it keeps its
\* cell, turns to the direction of that pre-move cell, has its path emptied and
\* is marked handled; with no such AGV it moves exactly one cell forward.
C19_CrossLockTurn == [][C19_Step]_vars

\* The batched move of the idle AGVs has moved one AGV and turned the AGV below
\* the cell it left upward, in place, with an empty path.
C19_Witness ==
    /\ pc = "move_idle"
    /\ Len(batch.moved_items) = 1
    /\ \E a \in Range(batch.agvs) :
           /\ a \in Range(handled_agvs)
           /\ a # batch.moved_items[1].agv
           /\ agvs[a].path_time_points = <<>>
           /\ agvs[a].pitch = UP
           /\ batch.moved_items[1].pos = <<agvs[a].position[1], agvs[a].position[2] + 1>>

(***************************************************************************)
(* C20: cross-lock pre-emption                                             *)
(***************************************************************************)
\* The four cells next to p.
cells_next_to(p) ==
    {<<p[1] - 1, p[2]>>, <<p[1] + 1, p[2]>>, <<p[1], p[2] - 1>>, <<p[1], p[2] + 1>>}

\* The cells next to p that hold neither a fixed obstacle nor an AGV, the AGVs
\* standing at the cells pos[x].
escape_cells(p, pos) ==
    {n \in cells_next_to(p) :
        /\ \A k \in 1..Len(fixed_map_obstacles) : fixed_map_obstacles[k] # n
        /\ \A x \in DOMAIN pos : pos[x] # n}

\* The cells of the AGVs in this state.
positions_now == [x \in 1..Len(agvs) |-> agvs[x].position]

\* A step in which AGV a changes its cell does not take a into the sole escape
\* cell of another AGV b.
C20_Step ==
    \A a \in 1..Len(agvs) : \A b \in 1..Len(agvs) :
        (a # b /\ agvs'[a].position # agvs[a].position
               /\ Cardinality(escape_cells(agvs[b].position, positions_now)) = 1)
        => agvs'[a].position \notin escape_cells(agvs[b].position, positions_now)

\* C20: no AGV ever moves, in a batched move or in the parking phase, into a
\* cell that at the moment of the move is the only neighbour of another AGV
\* that is neither a fixed obstacle nor occupied by an AGV.
C20_PreEmption == [][C20_Step]_vars

\* The cells of the AGVs before the last move of the running batched move.
positions_before_last_move ==
    LET item == batch.moved_items[Len(batch.moved_items)]
    IN  [x \in 1..Len(agvs) |-> IF x = item.agv THEN item.pos ELSE agvs[x].position]

\* A batched move has just moved an AGV that stood next to the sole escape
\* cell of another AGV, and the AGV went elsewhere.
C20_Witness ==
    /\ pc \in {"move_loaded", "move_idle"}
    /\ Len(batch.moved_items) >= 1
    /\ LET item == batch.moved_items[Len(batch.moved_items)]
       IN  /\ handled_agvs # <<>>
           /\ handled_agvs[Len(handled_agvs)] = item.agv
           /\ agvs[item.agv].position # item.pos
           /\ \E b \in 1..Len(agvs) :
                  /\ b # item.agv
                  /\ Cardinality(escape_cells(agvs[b].position,
                                              positions_before_last_move)) = 1
                  /\ escape_cells(agvs[b].position, positions_before_last_move)
                         \subseteq cells_next_to(item.pos)

(***************************************************************************)
(* C21: the unload rule                                                    *)
(***************************************************************************)
\* The cells p and q are 4-adjacent.
adjacent(p, q) == Abs(p[1] - q[1]) + Abs(p[2] - q[2]) = 1

\* AGV a carries a task and stands next to that task's end position.
at_delivery(a) ==
    /\ agvs[a].is_loaded
    /\ agvs[a].loaded_task \in TaskIds
    /\ adjacent(agvs[a].position, tasks[agvs[a].loaded_task].end_position)

\* A task is completed only by the unload phase and by an AGV that carries it
\* next to its end position; the unload phase unloads every such AGV and no
\* other.
C21_Step ==
    /\ \A k \in TaskIds :
           (~tasks[k].is_completed /\ tasks'[k].is_completed) =>
               /\ pc = "unload"
               /\ \E a \in AgvIds : at_delivery(a) /\ agvs[a].loaded_task = k
    /\ (pc = "unload" /\ pc' # pc) =>
           \A a \in AgvIds :
               IF at_delivery(a)
               THEN /\ agvs'[a].path_time_points = <<>>
                    /\ ~agvs'[a].is_loaded
                    /\ agvs'[a].loaded_task = None
                    /\ agvs'[a].position = agvs[a].position
                    /\ agvs'[a].pitch = agvs[a].pitch
                    /\ tasks'[agvs[a].loaded_task].is_completed
                    /\ tasks'[agvs[a].loaded_task].complete_timestamp = timestamp
                    /\ timestamp > tasks'[agvs[a].loaded_task].start_timestamp
               ELSE agvs'[a] = agvs[a]

\* C21: a task becomes completed only in the unload phase of a tick, by the
\* AGV that carries it, when that AGV is next to the task's end position at the
\* start of the tick; every loaded AGV next to its task's end position at the
\* start of a tick unloads in that tick, which empties its path, clears
\* is_loaded and loaded_task and sets complete_timestamp to the tick number,
\* strictly greater than start_timestamp.
C21_UnloadRule == [][C21_Step]_vars

\* The unload phase has just unloaded an AGV next to its task's end position:
\* the task is completed at this tick and the AGV is empty, without a path.
C21_Witness ==
    /\ pc = "load"
    /\ \E a \in AgvIds : \E k \in TaskIds :
           /\ a \in Range(handled_agvs)
           /\ tasks[k].is_completed
           /\ tasks[k].complete_timestamp = timestamp
           /\ tasks[k].agv = a
           /\ adjacent(agvs[a].position, tasks[k].end_position)
           /\ ~agvs[a].is_loaded
           /\ agvs[a].path_time_points = <<>>

(***************************************************************************)
(* C22: the shape of a path between ticks                                  *)
(***************************************************************************)
\* A path that starts at cell p at cost 0 and whose costs never decrease.
path_in_shape(ptp, p) ==
    /\ ptp[1].position = p
    /\ ptp[1].time_cost = 0
    /\ \A i \in 1..Len(ptp) : ptp[i].time_cost >= 0
    /\ \A i \in 1..(Len(ptp) - 1) : ptp[i].time_cost <= ptp[i + 1].time_cost

\* C22: at every tick boundary, for every AGV whose path_time_points is not
\* empty, element 0 is the AGV's current position with time_cost 0 and the
\* time costs along the path are non-negative and non-decreasing.
C22_PathShape ==
    TickBoundary =>
        \A a \in AgvIds :
            agvs[a].path_time_points # <<>> =>
                path_in_shape(agvs[a].path_time_points, agvs[a].position)

\* A tick has ended with an AGV that moved in it, away from the cell of its
\* previous row, and still holds a path of three points or more.
C22_Witness ==
    /\ TickBoundary
    /\ timestamp >= 2
    /\ \E a \in AgvIds :
           /\ Len(agvs[a].path_time_points) >= 3
           /\ \E r \in Range(trajectory_records) :
                  /\ r.timestamp = timestamp - 1
                  /\ r.name = agvs[a].name
                  /\ <<r.X, r.Y>> # agvs[a].position

(***************************************************************************)
(* C23: SimplePriorityQueue                                                *)
(***************************************************************************)
\* The entries a queue holds.
queued(q) == {q.heap[k] : k \in 1..Len(q.heap)}

\* Entry e goes first among the entries of S: none has a smaller priority, and
\* none of the same priority was enqueued before it.
goes_first(e, S) ==
    \A f \in S :
        /\ e.priority <= f.priority
        /\ (f.priority = e.priority) => e.index <= f.index

\* One call of the queue.
C23_Step ==
    /\ (queue'.call = "dequeue" /\ queue.heap # <<>>) =>
           /\ ~queue'.raised
           /\ \E e \in queued(queue) :
                  /\ goes_first(e, queued(queue))
                  /\ queue'.returned = <<e.item>>
                  /\ queued(queue') = queued(queue) \ {e}
           /\ count(queue') = count(queue) - 1
    /\ (queue'.call = "dequeue" /\ queue.heap = <<>>) =>
           /\ queue'.raised
           /\ queue'.heap = queue.heap
           /\ queue'.index = queue.index
    /\ queue'.call = "enqueue" =>
           /\ count(queue') = count(queue) + 1
           /\ \E e \in queued(queue') :
                  /\ e.index = queue.index
                  /\ queued(queue') = queued(queue) \cup {e}

\* C23: after any sequence of enqueue and dequeue calls, dequeue returns an item
\* whose priority is minimal among the items queued and, among those of equal
\* priority, the one enqueued earliest; count is the number of enqueues minus
\* the number of successful dequeues; dequeue on an empty queue fails and
\* leaves the queue unchanged.
C23_Queue ==
    /\ [][queue' # queue => C23_Step]_vars
    /\ [](count(queue) = queue.enqueues - queue.dequeues)

\* Four items of one priority were enqueued and the second dequeue has just
\* returned: the two items enqueued last remain.
C23_Witness ==
    /\ queue.call = "dequeue"
    /\ queue.enqueues = 4
    /\ queue.dequeues = 2
    /\ ~queue.raised
    /\ \A e \in queued(queue) : e.priority = 2 /\ e.index >= 2

(***************************************************************************)
(* C24: the deadlock guard                                                 *)
(***************************************************************************)
\* process() is invoked in this step: the scheduler leaves a tick boundary
\* for the first phase of a tick or for the error.
process_invoked == pc \in {"loop", "returned"} /\ pc' \in {"unload", "raised"}

\* C24: when process() is invoked with timestamp > 400 it fails with the
\* deadlock error and changes nothing: the timestamp, every AGV's position,
\* orientation, load state and path, every task's state and timestamps and the
\* recorder's rows are as before the call.
C24_GuardKeepsState ==
    [][(process_invoked /\ timestamp > MAX_TIMESTAMP) =>
           /\ pc' = "raised"
           /\ timestamp' = timestamp
           /\ agvs' = agvs
           /\ tasks' = tasks
           /\ trajectory_records' = trajectory_records]_vars

\* The guard has raised: the timestamp is beyond 400 and the last row is the
\* row of the last tick that ran.
C24_Witness ==
    /\ pc = "raised"
    /\ timestamp > MAX_TIMESTAMP
    /\ trajectory_records[Len(trajectory_records)].timestamp = timestamp

(***************************************************************************)
(* C25: one action per AGV and tick                                        *)
(***************************************************************************)
\* The recorder's last row of AGV a: the AGV as the previous tick left it.
last_row(a) == trajectory_records[Len(trajectory_records) - Len(agvs) + a]

\* What a tick can change of AGV a: its cell, its orientation, its load state.
posture(r) == <<r.position, r.pitch, r.is_loaded>>

\* AGV a is as the previous tick left it.
untouched(a) ==
    /\ agvs[a].position = <<last_row(a).X, last_row(a).Y>>
    /\ agvs[a].pitch = last_row(a).pitch
    /\ agvs[a].is_loaded = (last_row(a).loaded = "true")

\* The AGVs that hold an assignment of this tick.
assigned_now(assignments) == {assignments[k][1] : k \in 1..Len(assignments)}

\* A step inside a tick changes an AGV only if the tick has not changed it
\* yet, and changes one thing: it loads or unloads, or it moves to a cell next
\* to its own, or it turns; a task is assigned only to an AGV the tick has not
\* changed.
C25_Step ==
    ~TickBoundary =>
        \A a \in AgvIds :
            /\ posture(agvs'[a]) # posture(agvs[a]) =>
                   /\ untouched(a)
                   /\ \/ /\ agvs'[a].is_loaded # agvs[a].is_loaded
                         /\ agvs'[a].position = agvs[a].position
                         /\ agvs'[a].pitch = agvs[a].pitch
                      \/ /\ agvs'[a].is_loaded = agvs[a].is_loaded
                         /\ adjacent(agvs'[a].position, agvs[a].position)
                         /\ agvs'[a].pitch = agvs[a].pitch
                      \/ /\ agvs'[a].is_loaded = agvs[a].is_loaded
                         /\ agvs'[a].position = agvs[a].position
                         /\ agvs'[a].pitch # agvs[a].pitch
            /\ (a \in assigned_now(temp_assignments') /\ a \notin assigned_now(temp_assignments))
                   => untouched(a)

\* C25: in a tick each AGV takes at most one action among unload, load, move
\* and turn: its position changes by at most one 4-adjacent cell, its position
\* and its orientation never both change, and an AGV that unloaded or loaded
\* neither moves, turns, nor is assigned a task in that tick.
C25_OneAction == [][C25_Step]_vars

\* In one tick an AGV has unloaded and stayed as it was, and another AGV has
\* moved one cell without turning.
C25_Witness ==
    /\ pc = "park"
    /\ park.i > Len(park.agvs)
    /\ \E a \in AgvIds : \E b \in AgvIds :
           /\ last_row(a).loaded = "true"
           /\ ~agvs[a].is_loaded
           /\ agvs[a].position = <<last_row(a).X, last_row(a).Y>>
           /\ agvs[a].pitch = last_row(a).pitch
           /\ adjacent(agvs[b].position, <<last_row(b).X, last_row(b).Y>>)
           /\ agvs[b].pitch = last_row(b).pitch

(***************************************************************************)
(* C26: the parking phase and the loaded AGVs                              *)
(***************************************************************************)
\* A step of the parking loop leaves every loaded AGV where and as it is.
C26_Step ==
    pc = "park" =>
        \A a \in AgvIds :
            agvs[a].is_loaded =>
                /\ agvs'[a].position = agvs[a].position
                /\ agvs'[a].pitch = agvs[a].pitch

\* C26 as claimed: the parking phase acts on idle AGVs only; a loaded AGV is
\* never moved or turned by the park-to-edge logic.
C26_Original == [][C26_Step]_vars

(***************************************************************************)
(* C27: the passes of a batched move                                       *)
(***************************************************************************)
\* A batched move is running.
in_batch == pc \in {"move_loaded", "move_idle"}

\* The passes the loop of the running batched move has begun, the pass that
\* finds every candidate handled and ends the loop included once the loop is
\* bound to run it.
passes_run ==
    IF batch.passes = 0 THEN 1
    ELSE batch.passes + (IF batch_target.j = 0 /\ batch.is_assigned THEN 1 ELSE 0)

\* One visit of the loop: a later pass begins only after a pass that handled a
\* new AGV; the AGV that moves or turns is a candidate that was not handled, it
\* becomes handled, and no other AGV changes.
C27_Step ==
    (in_batch /\ pc' = pc) =>
        /\ (batch'.passes = batch.passes + 1 /\ batch.passes >= 1)
               => Len(handled_agvs) > batch.pass_start
        /\ \A a \in AgvIds :
               posture(agvs'[a]) # posture(agvs[a]) =>
                   /\ a \in Range(batch.agvs)
                   /\ a \notin Range(handled_agvs)
                   /\ handled_agvs' = Append(handled_agvs, a)
        /\ handled_agvs' # handled_agvs =>
               \E a \in Range(batch.agvs) :
                   /\ a \notin Range(handled_agvs)
                   /\ handled_agvs' = Append(handled_agvs, a)
                   /\ posture(agvs'[a]) # posture(agvs[a])

\* n candidates make n + 1 passes at most, and a pass visits each once.
C27_Bound ==
    in_batch =>
        /\ passes_run <= Len(batch.agvs) + 1
        /\ batch.i \in 1..(Len(batch.agvs) + 1)

\* C27: each call of the batched move terminates: with n candidates its loop
\* runs at most n + 1 passes, every pass except the last marks at least one
\* new AGV as handled, each candidate moves or cross-turns at most once in the
\* batch, and an AGV skipped in one pass may still move in a later pass of the
\* same batch after another AGV vacated its next cell.
C27_BatchTerminates ==
    /\ [][C27_Step]_vars
    /\ [](C27_Bound)
    /\ (in_batch ~> ~in_batch)

\* In its second pass or later, a batched move has just moved a candidate into
\* the cell that a candidate listed after it left earlier in the same batch.
C27_Witness ==
    /\ in_batch
    /\ batch.passes >= 2
    /\ Len(batch.moved_items) >= 2
    /\ LET last == batch.moved_items[Len(batch.moved_items)]
       IN  \E k \in 1..(Len(batch.moved_items) - 1) :
               /\ batch.moved_items[k].pos = agvs[last.agv].position
               /\ \E i \in 1..Len(batch.agvs) : \E j \in 1..Len(batch.agvs) :
                      /\ batch.agvs[i] = last.agv
                      /\ batch.agvs[j] = batch.moved_items[k].agv
                      /\ i < j

(***************************************************************************)
(* C28: task ownership                                                     *)
(***************************************************************************)
\* The AGVs that carry task k.
carriers(k) == {a \in AgvIds : agvs[a].loaded_task = k}

\* A loaded task keeps its AGV and its start timestamp; a task that is loaded
\* in this step is loaded by one AGV, the one the task then refers to.
C28_Step ==
    \A k \in TaskIds :
        /\ tasks[k].agv # None =>
               /\ tasks'[k].agv = tasks[k].agv
               /\ tasks'[k].start_timestamp = tasks[k].start_timestamp
               /\ \A a \in AgvIds : agvs'[a].loaded_task = k => agvs[a].loaded_task = k
        /\ (tasks[k].agv = None /\ tasks'[k].agv # None) =>
               /\ pc = "load"
               /\ \E a \in AgvIds :
                      /\ tasks'[k].agv = a
                      /\ agvs[a].loaded_task = None
                      /\ \A b \in AgvIds : agvs'[b].loaded_task = k <=> b = a

\* No task is carried by two AGVs.
C28_OneCarrier == \A k \in TaskIds : Cardinality(carriers(k)) <= 1

\* C28: over any run that starts with pairwise distinct AGV positions each task
\* is loaded at most once, the AGV recorded in task.agv never changes after the
\* load, no two AGVs carry the same task at the same time, and within one
\* tick's load phase no task is loaded by two AGVs.
C28_Ownership ==
    /\ [][DistinctStart => C28_Step]_vars
    /\ [](DistinctStart => C28_OneCarrier)

\* The load phase of one tick has just loaded two AGVs, each with its own task.
C28_Witness ==
    /\ DistinctStart
    /\ pc = "move_loaded"
    /\ \E a \in AgvIds : \E b \in AgvIds :
           /\ a # b
           /\ agvs[a].is_loaded /\ agvs[b].is_loaded
           /\ agvs[a].loaded_task # agvs[b].loaded_task
           /\ tasks[agvs[a].loaded_task].agv = a
           /\ tasks[agvs[b].loaded_task].agv = b
           /\ tasks[agvs[a].loaded_task].start_timestamp = timestamp
           /\ tasks[agvs[b].loaded_task].start_timestamp = timestamp

(***************************************************************************)
(* C29: a loaded AGV with a usable path acts                               *)
(***************************************************************************)
\* AGV a carried its task into this tick.
loaded_before_tick(a) ==
    /\ agvs[a].is_loaded
    /\ agvs[a].loaded_task \in TaskIds
    /\ tasks[agvs[a].loaded_task].start_timestamp < timestamp

\* AGV a has moved one cell, in the direction it faced, since the last row.
moved_one_cell(a) ==
    /\ agvs[a].pitch = last_row(a).pitch
    /\ agvs[a].position = cell_ahead(<<last_row(a).X, last_row(a).Y>>, last_row(a).pitch)

\* AGV a has turned in place since the last row.
turned_in_place(a) ==
    /\ agvs[a].position = <<last_row(a).X, last_row(a).Y>>
    /\ agvs[a].pitch # last_row(a).pitch

\* The phases of the loaded AGVs are over: an AGV that carried its task into
\* the tick has moved one cell or turned in place, or else it is as it was and
\* the path the batched move left it has fewer than two cells.
C29_AfterLoadedPhases ==
    pc = "assign" =>
        \A a \in AgvIds :
            loaded_before_tick(a) =>
                \/ a \in Range(handled_agvs) /\ (moved_one_cell(a) \/ turned_in_place(a))
                \/ /\ a \notin Range(handled_agvs)
                   /\ untouched(a)
                   /\ Len(agvs[a].path_time_points) < 2

\* The turn-loaded phase turns every unhandled loaded AGV whose path has two
\* cells or more toward the second cell of that path.
C29_TurnStep ==
    (pc = "move_loaded" /\ pc' = "assign") =>
        \A a \in AgvIds :
            (/\ loaded_before_tick(a)
             /\ a \notin Range(handled_agvs)
             /\ Len(agvs[a].path_time_points) >= 2) =>
                /\ a \in Range(handled_agvs')
                /\ agvs'[a].position = agvs[a].position
                /\ agvs'[a].pitch # agvs[a].pitch
                /\ cell_ahead(agvs'[a].position, agvs'[a].pitch)
                       = agvs[a].path_time_points[2].position

\* C29: a loaded AGV stays without action in a tick only when it has no usable
\* path: a loaded AGV that did not load in this tick and whose last replanned
\* delivery path has two cells or more moves one cell, makes a cross-lock
\* turn, or turns to the orientation of the first step in the turn-loaded phase.
C29_LoadedActs == [](C29_AfterLoadedPhases) /\ [][C29_TurnStep]_vars

\* The turn-loaded phase has just turned a loaded AGV toward the second cell of
\* the path it keeps.
C29_Witness ==
    /\ pc = "assign"
    /\ \E a \in AgvIds :
           /\ loaded_before_tick(a)
           /\ a \in Range(handled_agvs)
           /\ turned_in_place(a)
           /\ Len(agvs[a].path_time_points) >= 2
           /\ cell_ahead(agvs[a].position, agvs[a].pitch) = agvs[a].path_time_points[2].position

(***************************************************************************)
(* C30: the two direction mappings of PointEx                              *)
(***************************************************************************)
\* A call of get_pitch_to_neighbour on the outcome of get_neighbour gives the
\* direction back, and a call of get_neighbour on the outcome of
\* get_pitch_to_neighbour gives the neighbour back.
C30_Step ==
    /\ (pointex.call = "get_neighbour" /\ pointex'.call = "get_pitch_to_neighbour") =>
           (~pointex'.raised /\ pointex'.direction = pointex.direction)
    /\ (/\ pointex.call = "get_pitch_to_neighbour"
        /\ ~pointex.raised
        /\ pointex'.call = "get_neighbour") =>
           pointex'.neighbour = pointex.neighbour

\* C30: the direction mapping of PointEx is consistent: for every point p and
\* every direction d, p.get_pitch_to_neighbour(p.get_neighbour(d)) = d, and for
\* every neighbour q of p, p.get_neighbour(p.get_pitch_to_neighbour(q)) = q.
C30_Original == [][C30_Step]_vars

\* What the two mappings do together: the round trip keeps LEFT and RIGHT and
\* swaps UP and DOWN; it keeps the neighbours of the row and gives the
\* neighbour across the point for the two neighbours of the column.
C30_Mirror ==
    [][/\ (pointex.call = "get_neighbour" /\ pointex'.call = "get_pitch_to_neighbour") =>
              /\ ~pointex'.raised
              /\ pointex'.direction = (IF pointex.direction \in {UP, DOWN}
                                       THEN (pointex.direction + 180) % 360
                                       ELSE pointex.direction)
       /\ (/\ pointex.call = "get_pitch_to_neighbour"
           /\ ~pointex.raised
           /\ pointex'.call = "get_neighbour") =>
              pointex'.neighbour = (IF pointex.neighbour[1] = pointex.p[1]
                                    THEN <<pointex.p[1], 2 * pointex.p[2] - pointex.neighbour[2]>>
                                    ELSE pointex.neighbour)]_vars

\* get_neighbour has been called with UP and get_pitch_to_neighbour, called on
\* its outcome, has answered DOWN.
C30_Swapped ==
    /\ pointex.call = "get_pitch_to_neighbour"
    /\ ~pointex.raised
    /\ pointex.direction = DOWN
    /\ pointex.neighbour = up_neighbour(pointex.p)

====
